---- MODULE Spec2Model ----
(***************************************************************************)
(* A model of volumio-yt-support:                                          *)
(*   - InnertubeSupportService (Service.ts): the memoized minter promise  *)
(*     and its refresh timer;                                              *)
(*   - spawnInnertubeSupportService (Spawn.ts): the subprocess handshake   *)
(*     and the stop capability;                                            *)
(*   - InnertubeWrapper (Wrapper.ts): session construction, its refresh    *)
(*     timer, and disposal.                                                *)
(* Node.js runs every handler to its next await without interleaving, so   *)
(* each action below is one such run-to-completion step.                   *)
(***************************************************************************)
EXTENDS Integers, Sequences, FiniteSets, TLC

----------------------------------------------------------------------------
(* Bounds of the model *)

\* #createMinter runs the service may start
MaxCreations == 3
\* /pot requests (potFn invocations)
MaxRequests == 2
\* calls of spawnInnertubeSupportService
MaxSpawns == 2
\* calls of stop capabilities
MaxStops == 2
\* lines the subprocess writes in one stdout chunk
MaxChunkLines == 2
\* #initInnertube runs of the wrapper
MaxInits == 3
\* calls of the wrapper's public methods
MaxCalls == 2
\* calls of InnertubeSupportService.start()
MaxStarts == 3
\* calls of InnertubeSupportService.stop() by the holder of the service
MaxServiceStops == 2
\* POST /eval requests
MaxEvals == 2
\* the minters created for the /pot route
MaxMinters == 2
\* the generatePoToken() exchanges with the /pot route
MaxPotCalls == 2
\* the wrappers created in one process
MaxWrappers == 2
\* the evaluations requested by the clients of these wrappers
MaxShimEvals == 3
\* the 'system-player' events of MPD
MaxPlayerEvents == 2
\* the functions registered for 'queued' at one time
MaxRegistrations == 4
\* the latest reading of Date.now(), in milliseconds
MaxClockMs == 50600

----------------------------------------------------------------------------
(* Values *)

\* null (a promise slot, a timer handle); run and timer ids start at 1
Null == 0

\* estimatedTtlSecs answered by the integrity-token endpoint
MinterTtlValues == {50, 500}
\* mintRefreshThreshold: <<>> is undefined (absent), <<x>> is the number x
MinterThresholdValues == {<<>>, <<100>>}

\* the default of the destructuring `refreshThreshold = 100`
DefaultRefreshThreshold == 100
\* the safety margin of #createMinter, in seconds
MinterRefreshMargin == 100
\* setTimeout takes a delay of 1 .. 2^31-1 ms and uses 1 ms for any other
MinTimerMs == 1
MaxTimerMs == 2147483647

Runs == 1..MaxCreations
Requests == 1..MaxRequests
Spawns == 1..MaxSpawns
InitRuns == 1..MaxInits

\* the default of the destructuring `refreshThreshold = 100` of #initInnertube
SessionDefaultRefreshThreshold == 100
\* the timeout #initInnertube uses instead of a negative one, in seconds
SessionFallbackTimeout == 120

\* visitorData of a client made by Innertube.create ("" is none)
VisitorValues == {"", "v1"}
\* what getActiveAccountDatasyncIdToken answers: no active account, an
\* account without datasyncIdToken, an account with one
DatasyncResults == {"noAccount", "noToken", "token"}
\* what GET /pot answers: {error} (no poToken, no ttl), or a token with its
\* ttl and refreshThreshold (each <<>> when absent)
PotResponses ==
  {[poToken |-> <<>>, ttl |-> <<>>, refreshThreshold |-> <<>>]}
    \cup [poToken : {<<"pot">>}, ttl : {<<0>>, <<50>>, <<150>>},
          refreshThreshold : {<<>>, <<100>>}]
\* locales given to create() and setLocale()
NoLocale == [region |-> "", language |-> ""]
LocaleValues == {NoLocale, [region |-> "US", language |-> "en"]}

\* start() attempts of the service (each makes an InnertubeSupportServer)
Starts == 1..MaxStarts
\* the address app.listen binds, and ports the system may assign for port 0
ListenAddress == "127.0.0.1"
ListenPorts == {1, 2}

\* The body of a POST /eval request, as express.json() parsed it: `data` and
\* `env` are each <<>> (missing) or <<the object>>; in `env`, `n` and `sig`
\* are each <<>> (missing) or <<the string>>
EvalDataValues == {<<>>, <<[output |-> "player script"]>>}
EvalEnvValues ==
  {<<>>} \cup {<<e>> : e \in [n : {<<>>, <<"n1">>, <<"n2">>},
                              sig : {<<>>, <<"s1">>, <<"s2">>}]}
EvalBodies == [data : EvalDataValues, env : EvalEnvValues]

\* The prefix of the readiness line
ResultPrefix == "result: "

\* Texts a stdout line can carry after the prefix: the JSON the run script
\* prints for a started service (the port it listens on differs from one
\* subprocess to the next), and a text that is no JSON.
JsonStarted(port) ==
  CASE port = 1 -> "{status:started,server:{address:127.0.0.1,port:1}}"
    [] port = 2 -> "{status:started,server:{address:127.0.0.1,port:2}}"
    [] port = 3 -> "{status:started,server:{address:127.0.0.1,port:3}}"
    [] OTHER -> "{status:started,server:{address:127.0.0.1,port:4}}"
NoJson == "Segmentation fault"

\* The stdout lines of subprocess s, each as its first 8 characters and the
\* rest: the readiness lines and a diagnostic line
StdoutLines(s) ==
  [head : {ResultPrefix}, rest : {JsonStarted(s), NoJson}]
    \cup {[head |-> "Received", rest |-> " SIGTERM"]}

\* A stdout chunk: the lines readline finds in one 'data' event
RECURSIVE SeqsUpTo(_, _)
SeqsUpTo(S, n) ==
  IF n = 0 THEN {<<>>}
  ELSE LET shorter == SeqsUpTo(S, n - 1)
       IN shorter \cup {Append(q, x) : q \in shorter, x \in S}
StdoutChunks(s) == SeqsUpTo(StdoutLines(s), MaxChunkLines) \ {<<>>}

----------------------------------------------------------------------------
(* State *)

VARIABLES
  \* InnertubeSupportService
  minterPromise,        \* #minterPromise: Null or the #createMinter run it holds
  refreshMinterTimer,   \* #refreshMinterTimer: Null or a timer handle (maybe fired)
  minterRun,            \* run -> "none" | "pending" | "resolved" | "rejected"
  minterResult,         \* run -> <<>> or <<[ttl, refreshThreshold]>>
  nextRun,              \* the id of the next #createMinter run
  pendingMinterTimers,  \* the timers armed and neither fired nor cleared
  minterTimerMs,        \* run -> <<>> or <<[ms, after]>>: the delay given to
                        \* setTimeout and the delay the timer runs with
  firedMinterTimers,    \* the timers whose callback has run
  potReq                \* request -> [st, p, by, early]: a potFn invocation,
                        \* the promise it awaits, the minter that served it,
                        \* whether it came before any creation settled

VARIABLES
  \* spawnInnertubeSupportService, one entry per call
  nextSpawn,            \* the id of the next call
  stopCalls,            \* the calls of stop capabilities made so far
  spawned               \* call -> the state of its closure (see SpawnIdle)

spawnVars == <<nextSpawn, stopCalls, spawned>>

VARIABLES
  \* InnertubeWrapper: one instance, its create() and its subprocess
  wrapper,              \* the instance (see WrapperNew)
  calls,                \* the calls of public methods made so far
  lastCall              \* [op, result, promise] of the latest call: what it
                        \* returned or threw, and the run whose promise it
                        \* returned, if any

wrapperVars == <<wrapper, calls, lastCall>>

VARIABLES
  \* InnertubeSupportService as the run script holds it: start(), stop()
  supportService,       \* the instance (see ServiceNew)
  startLog,             \* one entry per start() call: [promise, during], the
                        \* promise it returned and whether the service was
                        \* "stopped", "starting" or "started" at the call
  serviceStops,         \* the stop() calls made by the holder of the service
  host                  \* the process of the run script (see HostNew)

lifecycleVars == <<supportService, startLog, serviceStops, host>>

VARIABLES
  \* the POST /eval route of InnertubeSupportServer
  evalLog               \* one entry per request handled: [body, response]

evalVars == <<evalLog>>

VARIABLES
  \* the GET /pot route, potFn behind it and generatePoToken() in front of it
  potClock,             \* Date.now() in the process of the service, in ms
  potMinter,            \* <<>> or the settled #minterPromise: a rejection or
                        \* the PoTokenMinterResult (see CreatePoTokenMinter)
  potMinters,           \* the minter creations settled so far
  potLog                \* one entry per generatePoToken() call: [identifier,
                        \* at, minter, response, outcome]

potVars == <<potClock, potMinter, potMinters, potLog>>

VARIABLES
  \* the wrappers of one process and the evaluation hook they share
  instances,            \* id -> an InnertubeWrapper (see WrapperNew)
  shimEval,             \* Platform.shim.eval: Null (the library's default)
                        \* or the instance whose #eval it calls
  shimLog               \* one entry per evaluation a client requested:
                        \* [client, routed, result]

shimVars == <<instances, shimEval, shimLog>>

VARIABLES
  \* AutoplayManager and the Volumio objects of its config
  am,                   \* the manager and its registrations (see ManagerNew)
  player,               \* stateMachine.getState(): [random, repeat,
                        \* repeatSingle]
  autoplay,             \* getConfigValue('autoplay')
  queue,                \* stateMachine.getQueue(): the uris of its items
  playerEvents,         \* the 'system-player' events emitted so far
  pendingGetState,      \* the mpdPlugin.getState() promises not yet resolved
  handlings,            \* the #handleAutoplay runs started since the latest
                        \* 'play' state of an own track
  lastDecision,         \* [branch, enabled]: where the latest
                        \* #handleAutoplay run went, and whether the
                        \* manager was enabled when it started
  fetching,             \* the getAutoplayItems() promises not yet resolved
  queueOps,             \* the runs that called clearQueue / addQueueItems
  queued                \* the 'queued' events emitted

autoplayVars == <<am, player, autoplay, queue, playerEvents, pendingGetState,
                  handlings, lastDecision, fetching, queueOps, queued>>

VARIABLES
  \* AutoplayManager as an EventEmitter of 'queued'
  queuedListeners,      \* the functions registered for 'queued', in order
  owed,                 \* function -> its on() calls not yet followed by an
                        \* off() call
  invoked               \* the functions the latest emit('queued') invoked

emitterVars == <<queuedListeners, owed, invoked>>

serviceVars == <<minterPromise, refreshMinterTimer, minterRun, minterResult,
                 nextRun, pendingMinterTimers, minterTimerMs,
                 firedMinterTimers, potReq>>

vars == <<serviceVars, spawnVars, wrapperVars, lifecycleVars, evalVars,
          potVars, shimVars, autoplayVars, emitterVars>>

nonServiceVars ==
  <<spawnVars, wrapperVars, lifecycleVars, evalVars, potVars, shimVars,
    autoplayVars, emitterVars>>
nonSpawnVars ==
  <<serviceVars, wrapperVars, lifecycleVars, evalVars, potVars, shimVars,
    autoplayVars, emitterVars>>
nonWrapperVars ==
  <<serviceVars, spawnVars, lifecycleVars, evalVars, potVars, shimVars,
    autoplayVars, emitterVars>>
nonLifecycleVars ==
  <<serviceVars, spawnVars, wrapperVars, evalVars, potVars, shimVars,
    autoplayVars, emitterVars>>
nonEvalVars ==
  <<serviceVars, spawnVars, wrapperVars, lifecycleVars, potVars, shimVars,
    autoplayVars, emitterVars>>
nonPotVars ==
  <<serviceVars, spawnVars, wrapperVars, lifecycleVars, evalVars, shimVars,
    autoplayVars, emitterVars>>
nonShimVars ==
  <<serviceVars, spawnVars, wrapperVars, lifecycleVars, evalVars, potVars,
    autoplayVars, emitterVars>>
nonAutoplayVars ==
  <<serviceVars, spawnVars, wrapperVars, lifecycleVars, evalVars, potVars,
    shimVars, emitterVars>>
nonEmitterVars ==
  <<serviceVars, spawnVars, wrapperVars, lifecycleVars, evalVars, potVars,
    shimVars, autoplayVars>>

----------------------------------------------------------------------------
(* InnertubeSupportService: pure parts *)

\* #getMinter: `!this.#minterPromise || forceCreate`
NeedCreateAlways(promise, forceCreate) == TRUE
NeedCreate(promise, forceCreate) == promise = Null \/ forceCreate

\* `const { ttl, refreshThreshold = 100 } = minterResult`
RefreshThresholdOf(threshold) ==
  IF threshold = <<>> THEN DefaultRefreshThreshold ELSE threshold[1]

\* `const timeout = ttl - refreshThreshold - 100`
MinterTimeoutNoMargin(ttl, threshold) == ttl - RefreshThresholdOf(threshold)
MinterTimeout(ttl, threshold) ==
  ttl - RefreshThresholdOf(threshold) - MinterRefreshMargin

\* setTimeout(fn, ms): the delay after which the callback is due
EffectiveDelayMs(ms) ==
  IF ms < MinTimerMs \/ ms > MaxTimerMs THEN MinTimerMs ELSE ms

\* #clearRefreshMinterTimer: clearTimeout of the handle held, if any
ClearRefreshMinterTimer(pending, handle) ==
  IF handle # Null THEN pending \ {handle} ELSE pending

----------------------------------------------------------------------------
(* InnertubeSupportService: operations *)

ServiceInit ==
  /\ minterPromise = Null
  /\ refreshMinterTimer = Null
  /\ minterRun = [c \in Runs |-> "none"]
  /\ minterResult = [c \in Runs |-> <<>>]
  /\ nextRun = 1
  /\ pendingMinterTimers = {}
  /\ minterTimerMs = [c \in Runs |-> <<>>]
  /\ firedMinterTimers = {}
  /\ potReq = [r \in Requests |->
                [st |-> "idle", p |-> Null, by |-> Null, early |-> FALSE]]

\* #createMinter up to its await: the timer is cleared, the exchange starts.
\* `pending` is the set of pending timers at the call.
CreateMinter(pending) ==
  /\ nextRun <= MaxCreations
  /\ pendingMinterTimers' =
       ClearRefreshMinterTimer(pending, refreshMinterTimer)
  /\ refreshMinterTimer' = Null
  /\ minterRun' = [minterRun EXCEPT ![nextRun] = "pending"]
  /\ minterPromise' = nextRun
  /\ nextRun' = nextRun + 1

\* #getMinter(forceCreate)
GetMinter(forceCreate) ==
  IF NeedCreate(minterPromise, forceCreate)
  THEN CreateMinter(pendingMinterTimers)
  ELSE UNCHANGED <<minterPromise, refreshMinterTimer, minterRun, nextRun,
                   pendingMinterTimers>>

\* potFn up to `await this.#getMinter()`: a /pot request arrives
PotRequest(r) ==
  /\ UNCHANGED nonServiceVars
  /\ potReq[r].st = "idle"
  /\ GetMinter(FALSE)
  /\ potReq' = [potReq EXCEPT ![r] =
                  [st |-> "awaiting", p |-> minterPromise', by |-> Null,
                   early |-> \A c \in Runs :
                               minterRun[c] \in {"none", "pending"}]]
  /\ UNCHANGED <<minterResult, minterTimerMs, firedMinterTimers>>

\* #createMinter after its await: createPoTokenMinter resolved; the timer is
\* armed and the run's promise resolves with the minter.
CreateMinterDone(c, ttl, threshold) ==
  /\ UNCHANGED nonServiceVars
  /\ minterRun[c] = "pending"
  /\ minterRun' = [minterRun EXCEPT ![c] = "resolved"]
  /\ minterResult' = [minterResult EXCEPT
                        ![c] = <<[ttl |-> ttl, refreshThreshold |-> threshold]>>]
  /\ minterTimerMs' = [minterTimerMs EXCEPT ![c] =
       <<[ms |-> MinterTimeout(ttl, threshold) * 1000,
          after |-> EffectiveDelayMs(MinterTimeout(ttl, threshold) * 1000)]>>]
  /\ refreshMinterTimer' = c
  /\ pendingMinterTimers' = pendingMinterTimers \cup {c}
  /\ UNCHANGED <<minterPromise, nextRun, firedMinterTimers, potReq>>

\* createPoTokenMinter threw: the run's promise rejects, no timer is armed
CreateMinterFail(c) ==
  /\ UNCHANGED nonServiceVars
  /\ minterRun[c] = "pending"
  /\ minterRun' = [minterRun EXCEPT ![c] = "rejected"]
  /\ UNCHANGED <<minterPromise, refreshMinterTimer, minterResult, nextRun,
                 pendingMinterTimers, minterTimerMs, firedMinterTimers, potReq>>

\* the refresh timer's callback: `this.#minterPromise = this.#createMinter()`
RefreshMinterTimerFireKeepsCache(t) ==
  /\ UNCHANGED nonServiceVars
  /\ t \in pendingMinterTimers
  /\ nextRun <= MaxCreations
  /\ pendingMinterTimers' =
       ClearRefreshMinterTimer(pendingMinterTimers \ {t}, refreshMinterTimer)
  /\ refreshMinterTimer' = Null
  /\ minterRun' = [minterRun EXCEPT ![nextRun] = "pending"]
  /\ nextRun' = nextRun + 1
  /\ firedMinterTimers' = firedMinterTimers \cup {t}
  /\ UNCHANGED <<minterPromise, minterResult, minterTimerMs, potReq>>
RefreshMinterTimerFire(t) ==
  /\ UNCHANGED nonServiceVars
  /\ t \in pendingMinterTimers
  /\ CreateMinter(pendingMinterTimers \ {t})
  /\ firedMinterTimers' = firedMinterTimers \cup {t}
  /\ UNCHANGED <<minterResult, minterTimerMs, potReq>>

\* potFn resumes with the minter it awaited and mints the token
PotMint(r) ==
  /\ UNCHANGED nonServiceVars
  /\ potReq[r].st = "awaiting"
  /\ minterRun[potReq[r].p] = "resolved"
  /\ potReq' = [potReq EXCEPT ![r].st = "done", ![r].by = potReq[r].p]
  /\ UNCHANGED <<minterPromise, refreshMinterTimer, minterRun, minterResult,
                 nextRun, pendingMinterTimers, minterTimerMs,
                 firedMinterTimers>>

\* potFn resumes with the rejection of the promise it awaited
PotFail(r) ==
  /\ UNCHANGED nonServiceVars
  /\ potReq[r].st = "awaiting"
  /\ minterRun[potReq[r].p] = "rejected"
  /\ potReq' = [potReq EXCEPT ![r].st = "failed"]
  /\ UNCHANGED <<minterPromise, refreshMinterTimer, minterRun, minterResult,
                 nextRun, pendingMinterTimers, minterTimerMs,
                 firedMinterTimers>>

\* #getMinter(true): no caller in the repository passes forceCreate
ForceGetMinter ==
  /\ UNCHANGED nonServiceVars
  /\ GetMinter(TRUE)
  /\ UNCHANGED <<minterResult, minterTimerMs, firedMinterTimers, potReq>>

ServiceNext ==
  \/ \E r \in Requests : PotRequest(r)
  \/ \E c \in Runs, ttl \in MinterTtlValues, th \in MinterThresholdValues :
       CreateMinterDone(c, ttl, th)
  \/ \E c \in Runs : CreateMinterFail(c)
  \/ \E t \in Runs : RefreshMinterTimerFire(t)
  \/ \E r \in Requests : PotMint(r)
  \/ \E r \in Requests : PotFail(r)

----------------------------------------------------------------------------
(* InnertubeSupportService and InnertubeSupportServer: start() and stop() *)

\* An InnertubeSupportServer (Server.ts):
\*   status        #status: "stopped" | "started"
\*   server        #server holds the http.Server
\*   startPromise  #startPromise: "none" (null) | "pending" | "resolved" |
\*                 "rejected"
\*   address       <<>> or <<[address, port]>>: what #startPromise resolved with
\*   listening     the http.Server accepts connections
\*   closeCalls    calls of http.Server.close()
ServerNew ==
  [status |-> "stopped", server |-> FALSE, startPromise |-> "none",
   address |-> <<>>, listening |-> FALSE, closeCalls |-> 0]

\* The promise start() makes: "none" | "pending" | "resolved" | "rejected",
\* and <<>> or <<the status it resolved with>>
PromiseNew == [state |-> "none", value |-> <<>>]

\* An InnertubeSupportService (Service.ts, lines 120-135):
\*   status        #status
\*   server        #server: Null or the attempt whose server it holds
\*   startPromise  #startPromise: Null or the attempt whose promise it holds
\*   servers, promises, nextStart: the servers and promises made by start()
\*   listens       calls of app.listen
\*   completed     "" | "start" | "stop": the call that completed last
\*                 (start() has resolved, stop() has returned)
ServiceNew ==
  [status |-> [status |-> "stopped"], server |-> Null, startPromise |-> Null,
   servers |-> [a \in Starts |-> ServerNew],
   promises |-> [a \in Starts |-> PromiseNew],
   nextStart |-> 1, listens |-> 0, completed |-> ""]

\* The process of the run script (run.js):
\*   pc          "running" | "stopping" (the SIGTERM handler awaits
\*               service.stop()) | "exited"
\*   stop        what the awaited stop() did: "" | "returned" | "closing"
\*   afterStart  SIGTERM came after start() had resolved
HostNew == [pc |-> "running", stop |-> "", afterStart |-> FALSE]

LifecycleInit ==
  /\ supportService = ServiceNew
  /\ startLog = <<>>
  /\ serviceStops = 0
  /\ host = HostNew

\* start(), line 167: `if (this.#startPromise)`
StartInFlightNever(startPromise) == FALSE
StartInFlight(startPromise) == startPromise # Null

\* InnertubeSupportServer.start() (Server.ts lines 32-51), to its return
ServerStart(srv) ==
  IF srv.startPromise = "none"
  THEN [srv EXCEPT !.startPromise = "pending"]
  ELSE srv

\* whether the service is stopped, starting or started, by its start promise
ServiceState(s) ==
  IF s.startPromise = Null THEN "stopped"
  ELSE IF s.promises[s.startPromise].state = "resolved" THEN "started"
  ELSE "starting"

\* start() (lines 166-210) to its return: <<the service, the promise
\* returned>>
ServiceStart(s) ==
  IF StartInFlight(s.startPromise) THEN <<s, s.startPromise>>
  ELSE LET a == s.nextStart
       IN <<[s EXCEPT !.nextStart = @ + 1,
                      !.server = a,
                      !.servers[a] = ServerStart(ServerNew),
                      !.listens = @ + 1,
                      !.promises[a].state = "pending",
                      !.startPromise = a],
            a>>

\* the callback of app.listen without error (Server.ts lines 43-46), then
\* start() after its await (lines 191-197)
Listening(s, a, port) ==
  LET address == [address |-> ListenAddress, port |-> port]
  IN [s EXCEPT !.servers[a] = [@ EXCEPT !.server = TRUE,
                                        !.status = "started",
                                        !.listening = TRUE,
                                        !.startPromise = "resolved",
                                        !.address = <<address>>],
               !.promises[a] =
                 [state |-> "resolved",
                  value |-> <<[status |-> "started",
                               address |-> address.address,
                               port |-> address.port]>>],
               !.completed = "start"]

\* the callback of app.listen with an error (Server.ts lines 37-41), then the
\* catch of start() (lines 198-205)
ListenFailed(s, a) ==
  [s EXCEPT !.servers[a] = [@ EXCEPT !.server = FALSE,
                                     !.startPromise = "none",
                                     !.status = "stopped"],
            !.startPromise = Null,
            !.server = Null,
            !.status = [status |-> "stopped"],
            !.promises[a].state = "rejected"]

\* InnertubeSupportServer.stop() (Server.ts lines 53-72) to its return:
\* <<the server, "undefined" | "closing" | "resolved">>
ServerStop(srv) ==
  IF srv.status = "stopped" THEN <<srv, "undefined">>
  ELSE IF srv.server
  THEN <<[srv EXCEPT !.closeCalls = @ + 1], "closing">>
  ELSE <<srv, "resolved">>

\* the finally of stop() (lines 217-221)
StopFinally(s) ==
  [s EXCEPT !.startPromise = Null, !.server = Null,
            !.status = [status |-> "stopped"]]

\* stop() (lines 212-223) to the settling of the promise it awaits, if that
\* does not wait for the server: <<the service, "returned" | "closing">>
ServiceStop(s) ==
  IF s.status.status = "stopped" THEN <<[s EXCEPT !.completed = "stop"],
                                        "returned">>
  ELSE IF s.server = Null THEN <<[s EXCEPT !.completed = "stop"], "returned">>
  ELSE LET stopped == ServerStop(s.servers[s.server])
           s1 == [s EXCEPT !.servers[s.server] = stopped[1]]
       IN IF stopped[2] = "undefined"
          THEN <<[s1 EXCEPT !.completed = "stop"], "returned">>
          ELSE IF stopped[2] = "resolved"
          THEN <<[StopFinally(s1) EXCEPT !.completed = "stop"], "returned">>
          ELSE <<s1, "closing">>

\* a call of start() (the run script's, line 296, or another holder's)
StartCalled ==
  /\ UNCHANGED nonLifecycleVars
  /\ host.pc # "exited"
  /\ Len(startLog) < MaxStarts
  /\ supportService' = ServiceStart(supportService)[1]
  /\ startLog' = Append(startLog,
       [promise |-> ServiceStart(supportService)[2],
        during |-> ServiceState(supportService)])
  /\ UNCHANGED <<serviceStops, host>>

\* the server of attempt a listens on the port the system assigned
ListenDone(a, port) ==
  /\ UNCHANGED nonLifecycleVars
  /\ host.pc # "exited"
  /\ supportService.servers[a].startPromise = "pending"
  /\ supportService' = Listening(supportService, a, port)
  /\ UNCHANGED <<startLog, serviceStops, host>>

\* the server of attempt a could not listen
ListenError(a) ==
  /\ UNCHANGED nonLifecycleVars
  /\ host.pc # "exited"
  /\ supportService.servers[a].startPromise = "pending"
  /\ supportService' = ListenFailed(supportService, a)
  /\ UNCHANGED <<startLog, serviceStops, host>>

\* a call of stop() by the holder of the service
StopCalled ==
  /\ UNCHANGED nonLifecycleVars
  /\ host.pc # "exited"
  /\ serviceStops < MaxServiceStops
  /\ supportService' = ServiceStop(supportService)[1]
  /\ serviceStops' = serviceStops + 1
  /\ UNCHANGED <<startLog, host>>

\* SIGTERM is delivered (run script, lines 283-287): the handler calls
\* service.stop() and awaits it
Sigterm ==
  /\ UNCHANGED nonLifecycleVars
  /\ host.pc = "running"
  /\ supportService' = ServiceStop(supportService)[1]
  /\ host' = [pc |-> "stopping",
              stop |-> ServiceStop(supportService)[2],
              afterStart |-> ServiceState(supportService) = "started"]
  /\ UNCHANGED <<startLog, serviceStops>>

\* the handler after its await (lines 288-290): process.exit(0)
SigtermExit ==
  /\ UNCHANGED nonLifecycleVars
  /\ host.pc = "stopping"
  /\ host.stop = "returned"
  /\ host' = [host EXCEPT !.pc = "exited"]
  /\ supportService' =
       [supportService EXCEPT
          !.servers = [a \in Starts |-> [@[a] EXCEPT !.listening = FALSE]]]
  /\ UNCHANGED <<startLog, serviceStops>>

LifecycleNext ==
  \/ StartCalled
  \/ \E a \in Starts, port \in ListenPorts : ListenDone(a, port)
  \/ \E a \in Starts : ListenError(a)
  \/ StopCalled
  \/ Sigterm
  \/ SigtermExit

----------------------------------------------------------------------------
(* POST /eval: the route (Server.ts) and evalFnImpl (Service.ts) *)

\* evalFnImpl lines 104-112: the properties of the object literal to return
EvalPropertiesBoth(env) ==
  <<[key |-> "n", fn |-> "nFunction", arg |-> env.n],
    [key |-> "sig", fn |-> "sigFunction", arg |-> env.sig]>>
EvalProperties(env) ==
  (IF env.n # <<>>
   THEN <<[key |-> "n", fn |-> "nFunction", arg |-> env.n]>> ELSE <<>>)
  \o
  (IF env.sig # <<>>
   THEN <<[key |-> "sig", fn |-> "sigFunction", arg |-> env.sig]>> ELSE <<>>)

\* line 114: the code, as the script followed by the return statement
EvalCode(data, env) ==
  [script |-> data.output, returns |-> EvalProperties(env)]

\* line 117, `Function(code)()`: the script runs, then the object literal is
\* evaluated: one property per entry, its value the function applied to the
\* argument
RunCode(code) ==
  {[key |-> code.returns[i].key,
    value |-> <<code.returns[i].fn, code.returns[i].arg>>] :
     i \in DOMAIN code.returns}

\* evalFnImpl
EvalFnImpl(data, env) == RunCode(EvalCode(data, env))

\* the route (Server.ts lines 86-95): the response, and the number of times
\* code was executed
EvalRoute(body) ==
  IF body.data = <<>> \/ body.env = <<>>
  THEN [status |-> 500,
        error |-> <<"Request body is missing data or env">>,
        result |-> <<>>, executed |-> 0]
  ELSE [status |-> 200, error |-> <<>>,
        result |-> <<EvalFnImpl(body.data[1], body.env[1])>>,
        executed |-> 1]

EvalInit == evalLog = <<>>

\* a POST /eval request is handled
PostEval(body) ==
  /\ UNCHANGED nonEvalVars
  /\ Len(evalLog) < MaxEvals
  /\ evalLog' = Append(evalLog, [body |-> body, response |-> EvalRoute(body)])

EvalNext == \E body \in EvalBodies : PostEval(body)

----------------------------------------------------------------------------
(* spawnInnertubeSupportService *)

\* `line.startsWith('result: ')`
StartsWithResult(line) == line.head = ResultPrefix

\* `line.substring('result: '.length)`
ResultJSON(line) == line.rest

\* JSON.parse: <<value>>, or <<>> when it throws
JSONParse(text) ==
  IF \E port \in 1..4 : text = JsonStarted(port)
  THEN <<[status |-> "started", address |-> "127.0.0.1",
          port |-> CHOOSE port \in 1..4 : text = JsonStarted(port)]>>
  ELSE <<>>

\* The closure of one call:
\*   proc      "none" | "running" | "failed" | "closed": the child process
\*             ("failed": it could not be spawned and has yet to emit
\*             'close')
\*   pid       proc.pid is set (the child was spawned)
\*   promise   "none" | "pending" | "resolved" | "rejected"
\*   value     <<>> or <<v>>: what the promise resolved with
\*   rlClosed  rl.close() was called
\*   killed    proc.kill() or kill(proc.pid) was called
\*   parses    calls of JSON.parse
\*   first     <<>> or <<line>>: the first line with the prefix that the
\*             subprocess wrote
\*   stopping  stop() calls waiting for 'close'
\*   stopped   stop() calls resolved
\*   onStops   calls of the onStop callback
\*   afterStop the call was made after a stop() of an earlier one resolved
SpawnIdle ==
  [proc |-> "none", pid |-> FALSE, promise |-> "none", value |-> <<>>,
   rlClosed |-> FALSE, killed |-> FALSE, parses |-> 0, first |-> <<>>,
   stopping |-> 0, stopped |-> 0, onStops |-> 0, afterStop |-> FALSE]

SpawnInit ==
  /\ nextSpawn = 1
  /\ stopCalls = 0
  /\ spawned = [s \in Spawns |-> SpawnIdle]

\* the 'line' listener on one line (lines 87-117)
OnLine(st, line) ==
  IF ~StartsWithResult(line) THEN st
  ELSE LET parsed == JSONParse(ResultJSON(line))
       IN IF parsed # <<>>
          THEN [st EXCEPT
                  !.promise = IF @ = "pending" THEN "resolved" ELSE @,
                  !.value = IF st.promise = "pending" THEN parsed ELSE @,
                  !.rlClosed = TRUE,
                  !.parses = @ + 1]
          ELSE [st EXCEPT
                  !.promise = IF @ = "pending" THEN "rejected" ELSE @,
                  !.killed = TRUE,
                  !.rlClosed = TRUE,
                  !.parses = @ + 1]

\* readline on one chunk: it emits 'line' for every line of the chunk, also
\* for the lines that follow one whose listener called rl.close()
RECURSIVE OnChunk(_, _)
OnChunk(st, chunk) ==
  IF chunk = <<>> THEN st
  ELSE OnChunk(OnLine(st, Head(chunk)), Tail(chunk))

\* the first line of the chunk that has the prefix, if any
RECURSIVE FirstResultLine(_)
FirstResultLine(chunk) ==
  IF chunk = <<>> THEN <<>>
  ELSE IF StartsWithResult(Head(chunk)) THEN <<Head(chunk)>>
  ELSE FirstResultLine(Tail(chunk))

\* spawnInnertubeSupportService up to its return (lines 35-118); hasPid is
\* whether the child could be spawned
SpawnStart(hasPid) ==
  /\ UNCHANGED nonSpawnVars
  /\ nextSpawn <= MaxSpawns
  /\ spawned' = [spawned EXCEPT ![nextSpawn] =
       [SpawnIdle EXCEPT
          !.proc = IF hasPid THEN "running" ELSE "failed",
          !.pid = hasPid,
          !.promise = "pending",
          !.afterStop = \E t \in Spawns : spawned[t].stopped > 0]]
  /\ nextSpawn' = nextSpawn + 1
  /\ UNCHANGED stopCalls

\* the subprocess writes a chunk to stdout and readline reads it; once rl
\* is closed it has left the stream, whose chunks then only reach onStdOut
\* (the log)
ProcStdout(s, chunk) ==
  /\ UNCHANGED nonSpawnVars
  /\ spawned[s].proc = "running"
  /\ ~spawned[s].rlClosed
  /\ spawned' = [spawned EXCEPT ![s] =
       OnChunk([spawned[s] EXCEPT !.first = FirstResultLine(chunk)], chunk)]
  /\ UNCHANGED <<nextSpawn, stopCalls>>

\* the stop capability (lines 94-104)
StopWithoutWaiting(s) ==
  /\ UNCHANGED nonSpawnVars
  /\ spawned[s].promise = "resolved"
  /\ stopCalls < MaxStops
  /\ stopCalls' = stopCalls + 1
  /\ spawned' = [spawned EXCEPT ![s] =
       [@ EXCEPT !.stopped = @ + 1, !.killed = TRUE]]
  /\ UNCHANGED nextSpawn
Stop(s) ==
  /\ UNCHANGED nonSpawnVars
  /\ spawned[s].promise = "resolved"
  /\ stopCalls < MaxStops
  /\ stopCalls' = stopCalls + 1
  /\ spawned' = [spawned EXCEPT ![s] =
       IF spawned[s].pid
       THEN [@ EXCEPT !.stopping = @ + 1, !.killed = TRUE]
       ELSE [@ EXCEPT !.stopped = @ + 1]]
  /\ UNCHANGED nextSpawn

\* the subprocess exits and its streams close: 'close' is emitted, the
\* listener of line 78 calls onStop, the listeners of stop() resolve
ProcClose(s) ==
  /\ UNCHANGED nonSpawnVars
  /\ spawned[s].proc \in {"running", "failed"}
  /\ spawned' = [spawned EXCEPT ![s] =
       [@ EXCEPT !.proc = "closed",
                 !.onStops = @ + 1,
                 !.stopped = @ + spawned[s].stopping,
                 !.stopping = 0]]
  /\ UNCHANGED <<nextSpawn, stopCalls>>

SpawnNext ==
  \/ \E hasPid \in BOOLEAN : SpawnStart(hasPid)
  \/ \E s \in Spawns : \E chunk \in StdoutChunks(s) : ProcStdout(s, chunk)
  \/ \E s \in Spawns : Stop(s)
  \/ \E s \in Spawns : ProcClose(s)
----------------------------------------------------------------------------
(* InnertubeWrapper: state *)

\* A #initInnertube run:
\*   pc          "none", then the await it is suspended at: "bare" (line 248),
\*               "datasync" (253), "pot" (281, in generatePoToken), "create"
\*               (326), "createBare" (317), then "resolved" | "rejected"
\*   error       why it rejected
\*   visitorData, identifier: the locals of #generateSessionPoToken
\*   token       <<>> or <<sessionPot>>
RunIdle ==
  [pc |-> "none", error |-> "", visitorData |-> "", identifier |-> <<>>,
   token |-> <<>>]

\* The instance and its surroundings:
\*   phase       create(): "none" | "spawning" | "initial" | "created" |
\*               "failed"
\*   cookie      #account.cookie is set
\*   locale, innertubePromise, service, innertube, lastSessionPoToken,
\*   poTokenRefreshTimer, disposed: the fields of the class
\*   runs, nextInit: the #initInnertube runs
\*   timers      the refresh timers armed and neither fired nor cleared,
\*               each named after the run that armed it
\*   armed       <<>> or the latest arming: <<[by, ttl, refreshThreshold,
\*               ms, after]>>, the run, its token's ttl and threshold, the
\*               delay given to setTimeout and the delay the timer runs with
\*   rpcs        requests sent to the service
\*   stops       calls of service.stop()
\*   proc        the subprocess: "none" | "running" | "closed"
\*   disposing   dispose(): "no" | "stopping" (awaits stop()) | "done"
\*   denoInstalled  the cache of isDenoInstalled: <<>> (undefined) or
\*               <<installed>>
\*   launch      <<>> or <<[command, runtime]>>: the program the subprocess
\*               was spawned with and the `runtime` variable of the spawn
WrapperNew ==
  [phase |-> "none", cookie |-> FALSE, locale |-> NoLocale,
   innertubePromise |-> Null, service |-> <<>>, innertube |-> <<>>,
   lastSessionPoToken |-> <<>>, poTokenRefreshTimer |-> Null,
   disposed |-> FALSE,
   runs |-> [r \in InitRuns |-> RunIdle], nextInit |-> 1,
   timers |-> {}, armed |-> <<>>,
   rpcs |-> 0, stops |-> 0, proc |-> "none", disposing |-> "no",
   denoInstalled |-> <<>>, launch |-> <<>>]

WrapperInit ==
  /\ wrapper = WrapperNew
  /\ calls = 0
  /\ lastCall = [op |-> "", result |-> "", promise |-> Null]

----------------------------------------------------------------------------
(* InnertubeWrapper: the code between two awaits, as functions of the
   instance *)

\* `const { ttl, refreshThreshold = 100 } = sessionPot`
SessionRefreshThresholdOf(threshold) ==
  IF threshold = <<>> THEN SessionDefaultRefreshThreshold ELSE threshold[1]

\* lines 336-339: `timeout = ttl - refreshThreshold; if (timeout < 0) ...`
SessionTimeoutNoFallback(ttl, threshold) ==
  ttl - SessionRefreshThresholdOf(threshold)
SessionTimeout(ttl, threshold) ==
  LET timeout == ttl - SessionRefreshThresholdOf(threshold)
  IN IF timeout < 0 THEN SessionFallbackTimeout ELSE timeout

\* isDenoInstalled (Utils.ts): the cached status if there is one, else the
\* outcome of the probe `npx --no-install --yes deno --version`
IsDenoInstalled(cache, probe) == IF cache # <<>> THEN cache ELSE <<probe>>

\* spawnInnertubeSupportService lines 39-68: the program spawned and the
\* `runtime` variable
LaunchUnderNode(installed) == [command |-> "node", runtime |-> "node"]
Launch(installed) ==
  IF installed THEN [command |-> "npx deno run", runtime |-> "deno"]
  ELSE [command |-> "node", runtime |-> "node"]

\* lines 91-105: `{...JSON.parse(resultJSON), runtime, stop}`
SpawnResult(status, runtime) == [status |-> status, runtime |-> runtime]

\* `get serviceRuntime`: <<>> is undefined
ServiceRuntime(w) ==
  IF w.service # <<>> THEN <<w.service[1].runtime>> ELSE <<>>

\* #checkDisposed throws
IsDisposedNever(w) == FALSE
IsDisposed(w) == w.disposed

\* #clearPoTokenRefreshTimer
ClearPoTokenRefreshTimer(w) ==
  IF w.poTokenRefreshTimer # Null
  THEN [w EXCEPT !.timers = @ \ {w.poTokenRefreshTimer},
                 !.poTokenRefreshTimer = Null]
  ELSE w

\* #applyLocale after its #checkDisposed
ApplyLocale(w) ==
  IF w.innertube = <<>> THEN w
  ELSE [w EXCEPT
          !.innertube[1].gl = IF w.locale.region # "" THEN w.locale.region
                              ELSE @,
          !.innertube[1].hl = IF w.locale.language # "" THEN w.locale.language
                              ELSE @]

\* a run settles (its locals are gone)
RejectRun(w, r, err) ==
  [w EXCEPT !.runs[r] = [RunIdle EXCEPT !.pc = "rejected", !.error = err]]
ResolveRun(w, r) ==
  [w EXCEPT !.runs[r] = [RunIdle EXCEPT !.pc = "resolved"]]

\* generatePoToken to its fetch: "disposed", "notStarted" (it throws) or
\* "fetch"
PoTokenGuard(w) ==
  IF IsDisposed(w) THEN "disposed"
  ELSE IF w.service = <<>> \/ w.service[1].status = "stopped"
  THEN "notStarted"
  ELSE "fetch"

\* #initInnertube lines 314-325 after the (absent) await of line 317:
\* #applyLocale, then return
FinishWithoutToken(w, r) ==
  IF IsDisposed(w) THEN RejectRun(w, r, "disposed")
  ELSE ResolveRun(ApplyLocale(w), r)

\* #initInnertube lines 313-319 with sessionPot = null
WithoutToken(w, r) ==
  LET w1 == [w EXCEPT !.lastSessionPoToken = <<>>]
  IN IF w1.innertube # <<>> THEN FinishWithoutToken(w1, r)
     ELSE [w1 EXCEPT !.runs[r].pc = "createBare"]

\* #generateSessionPoToken lines 274-295, to the fetch of generatePoToken
RequestSessionToken(w, r, ident, visitorData) ==
  LET identifier ==
        IF ident = <<>> /\ visitorData # ""
        THEN <<[type |-> "visitorData", value |-> visitorData,
                pageId |-> ""]>>
        ELSE ident
      guard == PoTokenGuard(w)
  IN IF identifier = <<>> THEN WithoutToken(w, r)
     ELSE IF guard # "fetch" THEN RejectRun(w, r, guard)
     ELSE [w EXCEPT !.rpcs = @ + 1,
                    !.runs[r].pc = "pot",
                    !.runs[r].identifier = identifier,
                    !.runs[r].visitorData = visitorData]

\* #generateSessionPoToken lines 251-257, with the client's visitorData
AfterBareClient(w, r, visitorData) ==
  IF w.cookie
  THEN [w EXCEPT !.runs[r].pc = "datasync",
                 !.runs[r].visitorData = visitorData]
  ELSE RequestSessionToken(w, r, <<>>, visitorData)

\* #initInnertube to its first await (lines 311-312, 240-250)
InitInnertubeReResolve(w) ==
  LET r  == w.nextInit
      w1 == [ClearPoTokenRefreshTimer(w) EXCEPT
               !.nextInit = @ + 1, !.runs[r] = RunIdle]
  IN IF w1.innertube # <<>>
     THEN AfterBareClient(w1, r, w1.innertube[1].visitorData)
     ELSE [w1 EXCEPT !.runs[r].pc = "bare"]
InitInnertube(w) ==
  LET r  == w.nextInit
      w1 == [ClearPoTokenRefreshTimer(w) EXCEPT
               !.nextInit = @ + 1, !.runs[r] = RunIdle]
      last == w1.lastSessionPoToken
  IN IF last # <<>>
     THEN RequestSessionToken(w1, r, <<last[1].identifier>>,
                              last[1].visitorData)
     ELSE IF w1.innertube # <<>>
     THEN AfterBareClient(w1, r, w1.innertube[1].visitorData)
     ELSE [w1 EXCEPT !.runs[r].pc = "bare"]

\* #initInnertubePromise
InitInnertubePromiseAlways(w) ==
  [InitInnertube(w) EXCEPT !.innertubePromise = w.nextInit]
InitInnertubePromise(w) ==
  IF w.innertubePromise = Null
  THEN [InitInnertube(w) EXCEPT !.innertubePromise = w.nextInit]
  ELSE w

\* #refreshSessionPoToken
RefreshSessionPoTokenKeepsPromise(w) ==
  InitInnertube(ClearPoTokenRefreshTimer(w))
RefreshSessionPoToken(w) ==
  [InitInnertube(ClearPoTokenRefreshTimer(w)) EXCEPT
     !.innertubePromise = w.nextInit]

\* #generateSessionPoToken lines 281-293 and #initInnertube lines 313, 326:
\* the answer of /pot has arrived
AfterPot(w, r, resp) ==
  LET sessionPot == [identifier |-> w.runs[r].identifier[1],
                     visitorData |-> w.runs[r].visitorData,
                     value |-> resp.poToken,
                     ttl |-> resp.ttl,
                     refreshThreshold |-> resp.refreshThreshold]
  IN [w EXCEPT !.lastSessionPoToken = <<sessionPot>>,
               !.runs[r].token = <<sessionPot>>,
               !.runs[r].pc = "create"]

\* #initInnertube lines 326-349: the client with the token has been created
AfterCreate(w, r) ==
  LET sessionPot == w.runs[r].token[1]
      w1 == [w EXCEPT !.innertube =
               <<[by |-> r, poToken |-> sessionPot.value,
                  visitorData |-> sessionPot.visitorData,
                  gl |-> "", hl |-> ""]>>]
      ttl == sessionPot.ttl
      ms == SessionTimeout(ttl[1], sessionPot.refreshThreshold) * 1000
  IN IF IsDisposed(w1) THEN RejectRun(w1, r, "disposed")
     ELSE IF ttl # <<>> /\ ttl[1] # 0
     THEN [ResolveRun(ApplyLocale(w1), r) EXCEPT
             !.poTokenRefreshTimer = r,
             !.timers = @ \cup {r},
             !.armed = <<[by |-> r, ttl |-> ttl[1],
                          refreshThreshold |-> sessionPot.refreshThreshold,
                          ms |-> ms, after |-> EffectiveDelayMs(ms)]>>]
     ELSE ResolveRun(ApplyLocale(w1), r)

\* #initInnertube lines 315-324: the client without token has been created
AfterCreateBare(w, r, visitorData) ==
  FinishWithoutToken(
    [w EXCEPT !.innertube =
       <<[by |-> r, poToken |-> <<>>, visitorData |-> visitorData,
          gl |-> "", hl |-> ""]>>], r)

\* A public method: <<the instance after the call, what the call returned
\* or threw, the run whose promise it returned>>

\* getInnertube()
GetInnertubeFresh(w) ==
  IF IsDisposed(w) THEN <<w, "disposed", Null>>
  ELSE <<InitInnertubePromiseAlways(w), "promise",
         InitInnertubePromiseAlways(w).innertubePromise>>
GetInnertube(w) ==
  IF IsDisposed(w) THEN <<w, "disposed", Null>>
  ELSE <<InitInnertubePromise(w), "promise",
         InitInnertubePromise(w).innertubePromise>>

\* generatePoToken(identifier), to its fetch
GeneratePoToken(w) ==
  IF PoTokenGuard(w) = "fetch"
  THEN <<[w EXCEPT !.rpcs = @ + 1], "fetch", Null>>
  ELSE <<w, PoTokenGuard(w), Null>>

\* #eval(data, env), the code-evaluation hook, to its fetch (lines 217-226)
Eval(w) ==
  IF PoTokenGuard(w) = "fetch"
  THEN <<[w EXCEPT !.rpcs = @ + 1], "fetch", Null>>
  ELSE <<w, PoTokenGuard(w), Null>>

\* setLocale(locale)
SetLocaleUnchecked(w, locale) ==
  <<ApplyLocale([w EXCEPT !.locale = locale]), "ok", Null>>
SetLocale(w, locale) ==
  IF IsDisposed(w) THEN <<w, "disposed", Null>>
  ELSE <<ApplyLocale([w EXCEPT !.locale = locale]), "ok", Null>>

\* dispose(), to its await of service.stop() (whose stop() kills the
\* subprocess and waits for its 'close')
Dispose(w) ==
  IF w.disposed THEN <<w, "noop", Null>>
  ELSE LET w1 == [ClearPoTokenRefreshTimer(w) EXCEPT
                    !.disposed = TRUE,
                    !.innertubePromise = Null,
                    !.lastSessionPoToken = <<>>,
                    !.innertube = <<>>]
       IN IF w1.service # <<>>
          THEN <<[w1 EXCEPT !.stops = @ + 1, !.disposing = "stopping"],
                 "stopping", Null>>
          ELSE <<[w1 EXCEPT !.disposing = "done"], "done", Null>>

----------------------------------------------------------------------------
(* InnertubeWrapper: operations *)

\* create() to its await of spawnInnertubeSupportService, which has probed
\* for Deno and spawned the subprocess; probe is whether the probe finds Deno
Create(cookie, locale, probe) ==
  /\ UNCHANGED nonWrapperVars
  /\ wrapper.phase = "none"
  /\ LET denoStatus == IsDenoInstalled(wrapper.denoInstalled, probe)
     IN wrapper' = [wrapper EXCEPT !.phase = "spawning", !.cookie = cookie,
                                   !.locale = locale, !.proc = "running",
                                   !.denoInstalled = denoStatus,
                                   !.launch = <<Launch(denoStatus[1])>>]
  /\ UNCHANGED <<calls, lastCall>>

\* create() lines 181-201: the spawn resolved with the service's status
SpawnResolved(status) ==
  /\ UNCHANGED nonWrapperVars
  /\ wrapper.phase = "spawning"
  /\ wrapper.proc = "running"
  /\ LET w1 == [wrapper EXCEPT !.service =
                  <<SpawnResult(status, wrapper.launch[1].runtime)>>]
     IN wrapper' =
          IF status = "started"
          THEN [InitInnertubePromise(w1) EXCEPT !.phase = "initial"]
          ELSE [w1 EXCEPT !.phase = "failed"]
  /\ UNCHANGED <<calls, lastCall>>

\* create() lines 201-202: the first construction settled
CreateReturns ==
  /\ UNCHANGED nonWrapperVars
  /\ wrapper.phase = "initial"
  /\ wrapper.runs[1].pc \in {"resolved", "rejected"}
  /\ wrapper' = [wrapper EXCEPT !.phase =
                   IF wrapper.runs[1].pc = "resolved" THEN "created"
                   ELSE "failed"]
  /\ UNCHANGED <<calls, lastCall>>

\* an await of a run settles: Innertube.create of the bare client
BareClientCreated(r, visitorData) ==
  /\ UNCHANGED nonWrapperVars
  /\ wrapper.runs[r].pc = "bare"
  /\ wrapper' = AfterBareClient(wrapper, r, visitorData)
  /\ UNCHANGED <<calls, lastCall>>

\* getActiveAccountDatasyncIdToken answered
DatasyncAnswered(r, result) ==
  /\ UNCHANGED nonWrapperVars
  /\ wrapper.runs[r].pc = "datasync"
  /\ wrapper' =
       RequestSessionToken(
         wrapper, r,
         IF result = "token"
         THEN <<[type |-> "datasyncIdToken", value |-> "d1", pageId |-> "p1"]>>
         ELSE <<>>,
         wrapper.runs[r].visitorData)
  /\ UNCHANGED <<calls, lastCall>>

\* the fetch of /pot answered
PotAnswered(r, resp) ==
  /\ UNCHANGED nonWrapperVars
  /\ wrapper.runs[r].pc = "pot"
  /\ wrapper' = AfterPot(wrapper, r, resp)
  /\ UNCHANGED <<calls, lastCall>>

\* Innertube.create with the token resolved
ClientCreated(r) ==
  /\ UNCHANGED nonWrapperVars
  /\ wrapper.runs[r].pc = "create"
  /\ wrapper' = AfterCreate(wrapper, r)
  /\ UNCHANGED <<calls, lastCall>>

\* Innertube.create without token (line 317) resolved
BareSessionCreated(r, visitorData) ==
  /\ UNCHANGED nonWrapperVars
  /\ wrapper.runs[r].pc = "createBare"
  /\ wrapper' = AfterCreateBare(wrapper, r, visitorData)
  /\ UNCHANGED <<calls, lastCall>>

\* the awaited call of a run threw (network, remote API)
AwaitFailed(r) ==
  /\ UNCHANGED nonWrapperVars
  /\ wrapper.runs[r].pc \in {"bare", "datasync", "pot", "create", "createBare"}
  /\ wrapper' = RejectRun(wrapper, r, "failed")
  /\ UNCHANGED <<calls, lastCall>>

\* the session refresh timer's callback
SessionTimerFire(t) ==
  /\ UNCHANGED nonWrapperVars
  /\ t \in wrapper.timers
  /\ wrapper.nextInit <= MaxInits
  /\ wrapper' = RefreshSessionPoToken(
                  [wrapper EXCEPT !.timers = @ \ {t}])
  /\ UNCHANGED <<calls, lastCall>>

\* a call of a public method by the holder of the instance
Called(op, outcome) ==
  /\ UNCHANGED nonWrapperVars
  /\ wrapper.phase = "created"
  /\ calls < MaxCalls
  /\ outcome[1].nextInit <= MaxInits + 1
  /\ wrapper' = outcome[1]
  /\ calls' = calls + 1
  /\ lastCall' = [op |-> op, result |-> outcome[2], promise |-> outcome[3]]

CallGetInnertube == Called("getInnertube", GetInnertube(wrapper))
CallGeneratePoToken == Called("generatePoToken", GeneratePoToken(wrapper))
CallSetLocale(locale) == Called("setLocale", SetLocale(wrapper, locale))
CallDispose == Called("dispose", Dispose(wrapper))

\* the subprocess closes (killed by stop(), or on its own): onStop clears
\* #service
SubprocessClosedKeepsService ==
  /\ UNCHANGED nonWrapperVars
  /\ wrapper.proc = "running"
  /\ wrapper' = [wrapper EXCEPT !.proc = "closed"]
  /\ UNCHANGED <<calls, lastCall>>
SubprocessClosed ==
  /\ UNCHANGED nonWrapperVars
  /\ wrapper.proc = "running"
  /\ wrapper' = [wrapper EXCEPT !.proc = "closed", !.service = <<>>]
  /\ UNCHANGED <<calls, lastCall>>

\* dispose() after its await: stop() resolved
DisposeStopped ==
  /\ UNCHANGED nonWrapperVars
  /\ wrapper.disposing = "stopping"
  /\ wrapper.proc = "closed"
  /\ wrapper' = [wrapper EXCEPT !.service = <<>>, !.disposing = "done"]
  /\ UNCHANGED <<calls, lastCall>>

WrapperNext ==
  \/ \E cookie \in BOOLEAN, locale \in LocaleValues, probe \in BOOLEAN :
       Create(cookie, locale, probe)
  \/ \E status \in {"started", "stopped"} : SpawnResolved(status)
  \/ CreateReturns
  \/ \E r \in InitRuns, v \in VisitorValues : BareClientCreated(r, v)
  \/ \E r \in InitRuns, d \in DatasyncResults : DatasyncAnswered(r, d)
  \/ \E r \in InitRuns, resp \in PotResponses : PotAnswered(r, resp)
  \/ \E r \in InitRuns : ClientCreated(r)
  \/ \E r \in InitRuns, v \in VisitorValues : BareSessionCreated(r, v)
  \/ \E r \in InitRuns : AwaitFailed(r)
  \/ \E t \in InitRuns : SessionTimerFire(t)
  \/ CallGetInnertube
  \/ CallGeneratePoToken
  \/ \E locale \in LocaleValues : CallSetLocale(locale)
  \/ CallDispose
  \/ SubprocessClosed
  \/ DisposeStopped

----------------------------------------------------------------------------
(* GET /pot: the route, potFn and the wrapper's generatePoToken() *)

\* the identifiers a caller passes to generatePoToken()
PotIdentifiers == {"", "v1"}

\* the readings of Date.now() after the service started, in ms
ClockReadings == {t \in {600, 1200, 50000, 50600} : t <= MaxClockMs}

\* createPoTokenMinter(): the result carries the ttl and the refresh
\* threshold of the integrity token response and the time of its creation
CreatePoTokenMinter(id, ttl, threshold, now) ==
  [state |-> "resolved", id |-> id, ttl |-> ttl,
   refreshThreshold |-> threshold, created |-> now]

\* a createPoTokenMinter() that threw: the cached promise is rejected
MinterRejected(id) ==
  [state |-> "rejected", id |-> id, ttl |-> 0,
   refreshThreshold |-> <<>>, created |-> 0]

\* Math.floor((ttl * 1000 + created - Date.now()) / 1000)
AdjustedTTLSinceNow(ttl, created, now) ==
  (ttl * 1000 + now - created) \div 1000
AdjustedTTL(ttl, created, now) ==
  (ttl * 1000 + created - now) \div 1000

\* potFn: awaits the minter, mints, and adjusts the ttl; <<>> when the
\* awaited minter promise is rejected (potFn throws)
PotFn(minter, identifier, now) ==
  IF minter.state = "rejected" THEN <<>>
  ELSE <<[poToken |-> <<identifier, minter.id>>,
          ttl |-> AdjustedTTL(minter.ttl, minter.created, now),
          refreshThreshold |-> minter.refreshThreshold]>>

\* the answers of the server: a status, and a body that is JSON or is not
JsonResponse(status, body) == [status |-> status, json |-> TRUE, body |-> body]
ErrorPage == [status |-> 500, json |-> FALSE, body |-> [html |-> "Error"]]

\* app.get('/pot'): 500 with an error object when the identifier is missing
\* or empty, else 200 with the result of potFn; a potFn that throws is
\* answered by the error handler of the framework, whose body is not JSON
PotRoute(minter, identifier, now) ==
  IF identifier = ""
  THEN JsonResponse(500, [error |-> "Request is missing param identifier"])
  ELSE IF PotFn(minter, identifier, now) = <<>> THEN ErrorPage
  ELSE JsonResponse(200, PotFn(minter, identifier, now)[1])

\* (await fetch(url)).json(): the parsed body whatever the status; it throws
\* when the body is not JSON
FetchJson(response) ==
  IF response.json
  THEN [outcome |-> "returned", value |-> response.body]
  ELSE [outcome |-> "threw", value |-> [message |-> "SyntaxError"]]

PotInit ==
  /\ potClock = 0
  /\ potMinter = <<>>
  /\ potMinters = 0
  /\ potLog = <<>>

\* time passes in the process of the service
ClockTick(t) ==
  /\ UNCHANGED nonPotVars
  /\ t > potClock
  /\ potClock' = t
  /\ UNCHANGED <<potMinter, potMinters, potLog>>

\* a #createMinter run settles: its result becomes the minter that potFn
\* awaits (the first creation, or the one started by the refresh timer)
MinterCreated(ttl, threshold) ==
  /\ UNCHANGED nonPotVars
  /\ potMinters < MaxMinters
  /\ potMinters' = potMinters + 1
  /\ potMinter' = <<CreatePoTokenMinter(potMinters + 1, ttl, threshold,
                                        potClock)>>
  /\ UNCHANGED <<potClock, potLog>>

MinterFailed ==
  /\ UNCHANGED nonPotVars
  /\ potMinters < MaxMinters
  /\ potMinters' = potMinters + 1
  /\ potMinter' = <<MinterRejected(potMinters + 1)>>
  /\ UNCHANGED <<potClock, potLog>>

\* generatePoToken(identifier) of a wrapper whose service runs: the request,
\* the answer of the route and what the call gives its caller
GeneratePoTokenExchange(identifier) ==
  /\ UNCHANGED nonPotVars
  /\ Len(potLog) < MaxPotCalls
  /\ potMinter # <<>>
  /\ LET response == PotRoute(potMinter[1], identifier, potClock)
     IN potLog' = Append(potLog,
          [identifier |-> identifier, at |-> potClock,
           minter |-> potMinter[1], response |-> response,
           outcome |-> FetchJson(response)])
  /\ UNCHANGED <<potClock, potMinter, potMinters>>

PotNext ==
  \/ \E t \in ClockReadings : ClockTick(t)
  \/ \E ttl \in MinterTtlValues, threshold \in MinterThresholdValues :
       MinterCreated(ttl, threshold)
  \/ MinterFailed
  \/ \E identifier \in PotIdentifiers : GeneratePoTokenExchange(identifier)

----------------------------------------------------------------------------
(* Platform.shim.eval: the evaluation hook shared by the wrappers of a
   process *)

WrapperIds == 1..MaxWrappers

ShimInit ==
  /\ instances = [i \in WrapperIds |-> WrapperNew]
  /\ shimEval = Null
  /\ shimLog = <<>>

\* create() of a new instance, to its return: the subprocess runs, the
\* service started, and line 200 makes the hook of the process call this
\* instance's #eval
CreateInstance(i) ==
  /\ UNCHANGED nonShimVars
  /\ instances[i].phase = "none"
  /\ instances' = [instances EXCEPT ![i] =
       [@ EXCEPT !.phase = "created", !.proc = "running",
                 !.launch = <<Launch(FALSE)>>,
                 !.service = <<SpawnResult("started", Launch(FALSE).runtime)>>]]
  /\ shimEval' = i
  /\ UNCHANGED shimLog

\* dispose() of an instance, to its end: the subprocess has closed
DisposeInstance(i) ==
  /\ UNCHANGED nonShimVars
  /\ instances[i].phase = "created"
  /\ ~instances[i].disposed
  /\ instances' = [instances EXCEPT ![i] =
       [Dispose(@)[1] EXCEPT !.proc = "closed", !.service = <<>>,
                             !.disposing = "done"]]
  /\ UNCHANGED <<shimEval, shimLog>>

\* the client of a live instance evaluates player code: it calls
\* Platform.shim.eval, which calls #eval of the instance the hook names
ClientEval(i) ==
  /\ UNCHANGED nonShimVars
  /\ Len(shimLog) < MaxShimEvals
  /\ instances[i].phase = "created"
  /\ ~instances[i].disposed
  /\ instances[i].service # <<>>
  /\ shimEval # Null
  /\ LET outcome == Eval(instances[shimEval])
     IN /\ instances' = [instances EXCEPT ![shimEval] = outcome[1]]
        /\ shimLog' = Append(shimLog,
             [client |-> i, routed |-> shimEval, result |-> outcome[2]])
  /\ UNCHANGED shimEval

ShimNext ==
  \/ \E i \in WrapperIds : CreateInstance(i)
  \/ \E i \in WrapperIds : DisposeInstance(i)
  \/ \E i \in WrapperIds : ClientEval(i)

----------------------------------------------------------------------------
(* AutoplayManager *)

\* config.serviceName and the name of another music service
ServiceName == "youtube2"
OtherService == "mpd"

\* the states Volumio pushes: status, service, uri and queue position of the
\* current track
PushStates ==
  [status : {"play", "stop"}, service : {ServiceName, OtherService},
   uri : {"yt1"}, position : {0, 1}]

\* the statuses mpdPlugin.getState() resolves with
MpdStatuses == {"play", "stop", "pause"}

\* the play modes of the state machine
ModesOff == [random |-> FALSE, repeat |-> FALSE, repeatSingle |-> FALSE]
PlayerModes ==
  {ModesOff, [ModesOff EXCEPT !.random = TRUE],
   [ModesOff EXCEPT !.repeat = TRUE], [ModesOff EXCEPT !.repeatSingle = TRUE]}

\* the queues the user builds, as the uris of their items
Queues ==
  {<<>>, <<"yt1">>, <<"x">>, <<"yt1", "x">>, <<"x", "yt1">>,
   <<"yt1", "yt1">>}

\* what getAutoplayItems() resolves with, as the uris of the items
AutoplayItems == {<<>>, <<"auto">>}

\* The manager:
\*   volumioStateListener, mpdStateListener   the field holds a function
\*   lastPlaybackInfo   <<>> (null) or <<[uri, position]>>
\*   volumioCallbacks   the manager's functions in
\*                      volumioCoreCommand.callbacks['volumioPushState']
\*   mpdListeners       the manager's functions listening to
\*                      'system-player' of clientMpd
ManagerNew ==
  [volumioStateListener |-> FALSE, mpdStateListener |-> FALSE,
   lastPlaybackInfo |-> <<>>, volumioCallbacks |-> 0, mpdListeners |-> 0]

AutoplayInit ==
  /\ am = ManagerNew
  /\ player = ModesOff
  /\ autoplay = TRUE
  /\ queue = <<>>
  /\ playerEvents = 0
  /\ pendingGetState = 0
  /\ handlings = 0
  /\ lastDecision = [branch |-> "none", enabled |-> FALSE]
  /\ fetching = 0
  /\ queueOps = 0
  /\ queued = 0

\* #addVolumioStateListener
AddVolumioStateListener(m) ==
  IF ~m.volumioStateListener
  THEN [m EXCEPT !.volumioStateListener = TRUE, !.volumioCallbacks = @ + 1]
  ELSE m

\* #removeVolumioStateListener: splices the function out of the callbacks
\* when it is found there
RemoveVolumioStateListener(m) ==
  IF m.volumioStateListener
  THEN [m EXCEPT !.volumioStateListener = FALSE,
                 !.volumioCallbacks = IF @ > 0 THEN @ - 1 ELSE 0]
  ELSE m

\* #addMpdStateListener
AddMpdStateListenerAlways(m) ==
  [m EXCEPT !.mpdStateListener = TRUE, !.mpdListeners = @ + 1]
AddMpdStateListener(m) ==
  IF ~m.mpdStateListener
  THEN [m EXCEPT !.mpdStateListener = TRUE, !.mpdListeners = @ + 1]
  ELSE m

\* #removeMpdStateListener
RemoveMpdStateListener(m) ==
  IF m.mpdStateListener
  THEN [m EXCEPT !.mpdStateListener = FALSE,
                 !.mpdListeners = IF @ > 0 THEN @ - 1 ELSE 0]
  ELSE m

\* the function held by #volumioStateListener, applied to a pushed state
VolumioStateListener(m, state) ==
  IF state.status = "play"
  THEN IF state.service = ServiceName
       THEN AddMpdStateListener(
              [m EXCEPT !.lastPlaybackInfo =
                 <<[uri |-> state.uri, position |-> state.position]>>])
       ELSE [RemoveMpdStateListener(m) EXCEPT !.lastPlaybackInfo = <<>>]
  ELSE m

\* the loop of #findLastPlayedTrackQueueIndex from index i down to 0;
\* indices are those of the code, from 0, and queue[i] is undefined beyond
\* the end of the queue
RECURSIVE FindFrom(_, _, _)
FindFrom(q, trackUri, i) ==
  IF i < 0 THEN -1
  ELSE IF i < Len(q) /\ q[i + 1] = trackUri THEN i
  ELSE FindFrom(q, trackUri, i - 1)

\* #findLastPlayedTrackQueueIndex
FindLastPlayedTrackQueueIndex(info, q) ==
  IF info = <<>> THEN -1
  ELSE FindFrom(q, info[1].uri, info[1].position)

\* `state.random || state.repeat || state.repeatSingle`
ModesOnButSingle(state) == state.random \/ state.repeat
ModesOn(state) == state.random \/ state.repeat \/ state.repeatSingle

\* #handleAutoplay to its first await: the branch it takes; "fetch" calls
\* getAutoplayItems, every other branch returns
HandleAutoplay(m, state, configured, q) ==
  IF ModesOn(state) THEN "modes"
  ELSE IF ~configured \/ m.lastPlaybackInfo = <<>> THEN "config"
  ELSE IF FindLastPlayedTrackQueueIndex(m.lastPlaybackInfo, q) < 0
  THEN "notFound"
  ELSE IF Len(q) - 1 # FindLastPlayedTrackQueueIndex(m.lastPlaybackInfo, q)
  THEN "notLast"
  ELSE "fetch"

\* enable()
Enable ==
  /\ UNCHANGED nonAutoplayVars
  /\ am' = AddVolumioStateListener(am)
  /\ UNCHANGED <<player, autoplay, queue, playerEvents, pendingGetState,
                 handlings, lastDecision, fetching, queueOps, queued>>

\* disable()
Disable ==
  /\ UNCHANGED nonAutoplayVars
  /\ am' = RemoveVolumioStateListener(RemoveMpdStateListener(am))
  /\ UNCHANGED <<player, autoplay, queue, playerEvents, pendingGetState,
                 handlings, lastDecision, fetching, queueOps, queued>>

\* Volumio pushes its state to the registered callbacks; the manager's
\* function gives the same result however often it is applied to one state
VolumioPushState(state) ==
  /\ am.volumioCallbacks > 0
  /\ am' = VolumioStateListener(am, state)
  /\ handlings' = IF state.status = "play" /\ state.service = ServiceName
                  THEN 0 ELSE handlings
  /\ UNCHANGED <<player, autoplay, queue, playerEvents, pendingGetState,
                 lastDecision, fetching, queueOps, queued>>
  /\ UNCHANGED nonAutoplayVars

\* MPD emits 'system-player': every registered function calls getState()
SystemPlayer ==
  /\ UNCHANGED nonAutoplayVars
  /\ playerEvents < MaxPlayerEvents
  /\ playerEvents' = playerEvents + 1
  /\ pendingGetState' = pendingGetState + am.mpdListeners
  /\ UNCHANGED <<am, player, autoplay, queue, handlings, lastDecision,
                 fetching, queueOps, queued>>

\* a getState() promise resolves: on 'stop' #handleAutoplay runs to its
\* first await and the listener is removed
GetStateResolved(status) ==
  /\ UNCHANGED nonAutoplayVars
  /\ pendingGetState > 0
  /\ pendingGetState' = pendingGetState - 1
  /\ IF status = "stop"
     THEN LET branch == HandleAutoplay(am, player, autoplay, queue)
          IN /\ handlings' = handlings + 1
             /\ lastDecision' = [branch |-> branch,
                                 enabled |-> am.volumioStateListener]
             /\ fetching' = IF branch = "fetch" THEN fetching + 1
                            ELSE fetching
             /\ am' = RemoveMpdStateListener(am)
     ELSE UNCHANGED <<am, handlings, lastDecision, fetching>>
  /\ UNCHANGED <<player, autoplay, queue, playerEvents, queueOps, queued>>

\* #handleAutoplay after getAutoplayItems resolved: the items are added to
\* the queue (emptied first when autoplayClearQueue is set), and 'queued' is
\* emitted
AutoplayItemsFetched(items, clearQueue) ==
  /\ UNCHANGED nonAutoplayVars
  /\ fetching > 0
  /\ fetching' = fetching - 1
  /\ IF Len(items) > 0
     THEN /\ queue' = (IF clearQueue THEN <<>> ELSE queue) \o items
          /\ queueOps' = queueOps + 1
     ELSE UNCHANGED <<queue, queueOps>>
  /\ queued' = queued + 1
  /\ UNCHANGED <<am, player, autoplay, playerEvents, pendingGetState,
                 handlings, lastDecision>>

\* the user edits the queue, changes the play modes, changes the setting
QueueSet(q) ==
  /\ UNCHANGED nonAutoplayVars
  /\ queue' = q
  /\ UNCHANGED <<am, player, autoplay, playerEvents, pendingGetState,
                 handlings, lastDecision, fetching, queueOps, queued>>

PlayerSet(state) ==
  /\ UNCHANGED nonAutoplayVars
  /\ player' = state
  /\ UNCHANGED <<am, autoplay, queue, playerEvents, pendingGetState,
                 handlings, lastDecision, fetching, queueOps, queued>>

ConfigSet(configured) ==
  /\ UNCHANGED nonAutoplayVars
  /\ autoplay' = configured
  /\ UNCHANGED <<am, player, queue, playerEvents, pendingGetState,
                 handlings, lastDecision, fetching, queueOps, queued>>

AutoplayNext ==
  \/ Enable
  \/ Disable
  \/ \E state \in PushStates : VolumioPushState(state)
  \/ SystemPlayer
  \/ \E status \in MpdStatuses : GetStateResolved(status)
  \/ \E items \in AutoplayItems, clearQueue \in BOOLEAN :
       AutoplayItemsFetched(items, clearQueue)
  \/ \E q \in Queues : QueueSet(q)
  \/ \E state \in PlayerModes : PlayerSet(state)
  \/ \E configured \in BOOLEAN : ConfigSet(configured)

----------------------------------------------------------------------------
(* AutoplayManager: on, off and emit of 'queued' *)

\* the functions a user of the manager registers
ListenerFns == {"f", "g"}

EmitterInit ==
  /\ queuedListeners = <<>>
  /\ owed = [l \in ListenerFns |-> 0]
  /\ invoked = {}

\* EventEmitter.on: appends the function to the listeners of the event
SuperOn(listeners, listener) == Append(listeners, listener)

\* on('queued', listener): super.on
On(listener) ==
  /\ Len(queuedListeners) < MaxRegistrations
  /\ queuedListeners' = SuperOn(queuedListeners, listener)
  /\ owed' = [owed EXCEPT ![listener] = @ + 1]
  /\ UNCHANGED invoked
  /\ UNCHANGED nonEmitterVars

\* off('queued', listener): the method calls super.on, so the function is
\* appended to the listeners
Off(listener) ==
  /\ Len(queuedListeners) < MaxRegistrations
  /\ queuedListeners' = SuperOn(queuedListeners, listener)
  /\ owed' = [owed EXCEPT ![listener] = IF @ > 0 THEN @ - 1 ELSE 0]
  /\ UNCHANGED invoked
  /\ UNCHANGED nonEmitterVars

\* emit('queued', args): super.emit invokes every registered function
Emit ==
  /\ invoked' = {queuedListeners[k] : k \in 1..Len(queuedListeners)}
  /\ UNCHANGED <<queuedListeners, owed>>
  /\ UNCHANGED nonEmitterVars

EmitterNext ==
  \/ \E listener \in ListenerFns : On(listener)
  \/ \E listener \in ListenerFns : Off(listener)
  \/ Emit

----------------------------------------------------------------------------
(* Specifications *)

Init ==
  /\ ServiceInit /\ SpawnInit /\ WrapperInit /\ LifecycleInit /\ EvalInit
  /\ PotInit /\ ShimInit /\ AutoplayInit /\ EmitterInit

\* the service as the repository drives it
SpecService == Init /\ [][ServiceNext]_vars

\* the service with #getMinter's forceCreate parameter exercised
ServiceForceNext == ServiceNext \/ ForceGetMinter
SpecServiceForce == Init /\ [][ServiceForceNext]_vars

\* spawnInnertubeSupportService and the subprocesses it starts
SpecSpawn == Init /\ [][SpawnNext]_vars

\* one InnertubeWrapper from create() to dispose()
SpecWrapper == Init /\ [][WrapperNext]_vars

\* one InnertubeSupportService in the process of the run script
SpecLifecycle == Init /\ [][LifecycleNext]_vars

\* the POST /eval route
SpecEval == Init /\ [][EvalNext]_vars

\* the GET /pot route and its caller
SpecPot == Init /\ [][PotNext]_vars

\* the wrappers of one process
SpecShim == Init /\ [][ShimNext]_vars

\* one AutoplayManager and the player around it
SpecAutoplay == Init /\ [][AutoplayNext]_vars

\* the listeners of the manager's 'queued' event
SpecEmitter == Init /\ [][EmitterNext]_vars

----------------------------------------------------------------------------
(* Claims about InnertubeSupportService *)

InFlightCreations == {c \in Runs : minterRun[c] = "pending"}

\* C1: /pot requests that arrive before the first minter creation settles
\* cause exactly one challenge exchange and all get its outcome (the minter,
\* or its failure); never is more than one exchange in flight.
C1_SingleFlightMinter ==
  /\ Cardinality(InFlightCreations) <= 1
  /\ \A r \in Requests :
       (potReq[r].st # "idle" /\ potReq[r].early) =>
         /\ potReq[r].p = 1
         /\ minterRun[1] = "pending" => nextRun = 2
         /\ potReq[r].st = "done" =>
              potReq[r].by = 1 /\ minterRun[1] = "resolved"
         /\ potReq[r].st = "failed" => minterRun[1] = "rejected"

\* C1 witness: every request is waiting on the one creation in flight
C1_Witness ==
  /\ minterRun[1] = "pending"
  /\ \A r \in Requests : potReq[r].st = "awaiting" /\ potReq[r].early

C6_MinterTimerDelay ==
  \A c \in Runs :
    minterTimerMs[c] # <<>> =>
      LET res == minterResult[c][1]
          th  == IF res.refreshThreshold = <<>> THEN 100
                 ELSE res.refreshThreshold[1]
          tm  == minterTimerMs[c][1]
      IN /\ tm.ms = (res.ttl - th - 100) * 1000
         /\ (res.ttl = 500 /\ th = 100) => tm.ms = 300000 /\ tm.after = 300000
         /\ (res.ttl = 50 /\ th = 100) =>
              /\ tm.ms = -150000
              /\ tm.after = 1
              /\ minterRun[c] = "resolved"

\* C6 witness: a timer armed with a negative delay has fired, and a timer
\* was armed with 300 s
C6_Witness ==
  /\ \E c \in firedMinterTimers : minterTimerMs[c][1].ms < 0
  /\ \E c \in Runs : minterTimerMs[c] # <<>> /\ minterTimerMs[c][1].ms = 300000

----------------------------------------------------------------------------
(* Claims about spawnInnertubeSupportService *)

\* C8: a stop() has resolved only if the subprocess has closed, and a spawn
\* (also one made after a stop() of an earlier subprocess resolved) resolves
\* with the address and port its own subprocess announced.
C8_StopWaitsForClose ==
  \A s \in Spawns :
    /\ spawned[s].stopped > 0 => spawned[s].proc = "closed"
    /\ spawned[s].promise = "resolved" =>
         /\ spawned[s].first # <<>>
         /\ spawned[s].value = JSONParse(spawned[s].first[1].rest)

\* C8 witness: the first service was stopped, the stop resolved, and a spawn
\* made after that resolved with another port than the first one's
C8_Witness ==
  /\ spawned[1].stopped > 0
  /\ spawned[1].value # <<>> /\ spawned[1].value[1].port = 1
  /\ spawned[2].afterStop
  /\ spawned[2].promise = "resolved"
  /\ spawned[2].value[1].port = 2
  /\ spawned[2].proc = "running"

\* C9: when the subprocess has closed without having written a line with
\* the `result: ` prefix, the spawn promise is rejected.
C9_ExitBeforeReadyRejects ==
  \A s \in Spawns :
    (spawned[s].pid /\ spawned[s].proc = "closed" /\ spawned[s].first = <<>>)
      => spawned[s].promise = "rejected"

\* C10: a first `result: ` line that is no JSON kills the subprocess and
\* rejects the spawn; the promise is settled by the first `result: ` line
\* and by nothing else; no later line is parsed.
C10_FirstResultLineSettles ==
  \A s \in Spawns :
    /\ (spawned[s].first # <<>> /\ JSONParse(spawned[s].first[1].rest) = <<>>)
         => spawned[s].killed /\ spawned[s].promise = "rejected"
    /\ spawned[s].promise \in {"resolved", "rejected"}
         <=> spawned[s].first # <<>>
    /\ spawned[s].promise = "resolved"
         => spawned[s].value = JSONParse(spawned[s].first[1].rest)
    /\ spawned[s].parses <= 1

----------------------------------------------------------------------------
(* Claims about InnertubeWrapper *)

InFlightInits(w) ==
  {r \in InitRuns : w.runs[r].pc \notin {"none", "resolved", "rejected"}}

\* C2: a getInnertube() call made while a session construction is pending
\* returns the promise of that construction and starts no other; a wrapper
\* that is not disposed has at most one #initInnertube run in flight.
C2_SingleFlightSession ==
  [][/\ ~wrapper'.disposed => Cardinality(InFlightInits(wrapper')) <= 1
     /\ ( /\ calls' # calls
          /\ lastCall'.op = "getInnertube"
          /\ ~wrapper.disposed
          /\ InFlightInits(wrapper) # {} )
        => /\ wrapper'.nextInit = wrapper.nextInit
           /\ lastCall'.result = "promise"
           /\ InFlightInits(wrapper) = {lastCall'.promise}
           /\ wrapper'.innertubePromise = lastCall'.promise]_vars

\* C2 witness: getInnertube() returned the promise of the reconstruction a
\* refresh timer started, while it was pending
C2_Witness ==
  /\ lastCall.op = "getInnertube"
  /\ lastCall.promise = 2
  /\ wrapper.runs[2].pc = "pot"
  /\ wrapper.nextInit = 3

C5_AtMostOneSessionTimer == Cardinality(wrapper.timers) <= 1

\* C5 witness: the timer armed by a reconstruction is pending after public
\* calls were made
C5_Witness ==
  /\ wrapper.timers = {2}
  /\ calls > 0
  /\ ~wrapper.disposed

\* C7 as stated: the session refresh timer is armed for
\* max(ttl - refreshThreshold, 120) seconds.
C7_FloorOf120 ==
  wrapper.armed # <<>> =>
    LET a  == wrapper.armed[1]
        th == IF a.refreshThreshold = <<>> THEN 100 ELSE a.refreshThreshold[1]
    IN a.ms = (IF a.ttl - th > 120 THEN a.ttl - th ELSE 120) * 1000

\* C7 amended: when the client was created with a token whose ttl is not 0
\* (and the wrapper is not disposed), the timer is armed for
\* ttl - refreshThreshold seconds if that is not negative and for 120
\* seconds if it is (refreshThreshold 100 when absent): 50 seconds for ttl
\* 150 and threshold 100, 120 seconds for ttl 50 and threshold 100. With
\* ttl 0 or absent no timer is armed.
C7_SessionTimerDelay ==
  [][\A r \in InitRuns :
       (wrapper.runs[r].pc = "create" /\ wrapper'.runs[r].pc = "resolved") =>
         LET tok == wrapper.runs[r].token[1]
             th  == IF tok.refreshThreshold = <<>> THEN 100
                    ELSE tok.refreshThreshold[1]
         IN IF tok.ttl = <<>> \/ tok.ttl = <<0>>
            THEN wrapper'.timers = {} /\ wrapper'.armed = wrapper.armed
            ELSE /\ wrapper'.timers = {r}
                 /\ wrapper'.poTokenRefreshTimer = r
                 /\ wrapper'.armed[1].by = r
                 /\ wrapper'.armed[1].ms =
                      (IF tok.ttl[1] - th < 0 THEN 120 ELSE tok.ttl[1] - th)
                        * 1000
                 /\ (tok.ttl[1] = 150 /\ th = 100)
                      => wrapper'.armed[1].ms = 50000
                 /\ (tok.ttl[1] = 50 /\ th = 100)
                      => wrapper'.armed[1].ms = 120000]_vars

\* C7 witness: a timer was armed for 50 seconds by a token with ttl 150
C7_Witness ==
  /\ wrapper.armed # <<>>
  /\ wrapper.armed[1].ttl = 150
  /\ wrapper.armed[1].ms = 50000
  /\ wrapper.timers # {}


----------------------------------------------------------------------------
(* Claims about start() and stop() of InnertubeSupportService *)

\* the attempts whose server was made and has not failed
LiveAttempts ==
  {a \in Starts : supportService.promises[a].state \in {"pending", "resolved"}}

\* C12: a start() call made while the service is starting or started
\* returns the promise of the start in flight and makes no server (app.listen
\* is not called); at most one server is starting or listening, and a
\* resolved start keeps the address and port it resolved with.
C12_SingleFlightStart ==
  [][/\ Cardinality({a \in Starts :
          supportService'.promises[a].state \in {"pending", "resolved"}}) <= 1
     /\ (startLog' # startLog /\ supportService.startPromise # Null)
          => /\ startLog'[Len(startLog')].promise = supportService.startPromise
             /\ startLog'[Len(startLog')].during \in {"starting", "started"}
             /\ supportService'.listens = supportService.listens
             /\ supportService'.nextStart = supportService.nextStart
     /\ \A a \in Starts :
          supportService.promises[a].state = "resolved"
            => supportService'.promises[a] = supportService.promises[a]]_vars

\* C12 witness: three start() calls, made while the service was stopped,
\* starting and started, returned the same promise, which resolved; one
\* app.listen call was made
C12_Witness ==
  /\ Len(startLog) = 3
  /\ startLog[1] = [promise |-> 1, during |-> "stopped"]
  /\ startLog[2] = [promise |-> 1, during |-> "starting"]
  /\ startLog[3] = [promise |-> 1, during |-> "started"]
  /\ supportService.promises[1].state = "resolved"
  /\ supportService.listens = 1

\* C13: when start() was the last call to complete, and it resolved, `status`
\* is Started with the address and port start() resolved with; when stop()
\* was the last call to complete, `status` is Stopped.
C13_StatusFollowsLifecycle ==
  /\ supportService.completed = "start" =>
       \E a \in Starts :
         /\ supportService.promises[a].state = "resolved"
         /\ supportService.status =
              supportService.promises[a].value[1]
  /\ supportService.completed = "stop" =>
       supportService.status.status = "stopped"

\* C18: when the process has exited on a SIGTERM that came after the service
\* had started, service.stop() has closed the listening server.
C18_SigtermStopsServer ==
  (host.pc = "exited" /\ host.afterStart) =>
    \E a \in Starts : supportService.servers[a].closeCalls > 0
----------------------------------------------------------------------------
(* Claims about POST /eval *)

\* the keys of a result object
KeysOf(result) == {p.key : p \in result}

\* C15: a body without `data` or without `env` is answered with status 500
\* and an `error` field, and no code is executed; any other body is answered
\* with status 200 and an object whose keys are those of n and sig that `env`
\* has: `sig` alone gives the key sig alone, neither gives the empty object.
C15_EvalResponse ==
  \A i \in DOMAIN evalLog :
    LET body == evalLog[i].body
        resp == evalLog[i].response
    IN IF body.data = <<>> \/ body.env = <<>>
       THEN resp.status = 500 /\ resp.error # <<>> /\ resp.result = <<>>
            /\ resp.executed = 0
       ELSE /\ resp.status = 200 /\ resp.error = <<>>
            /\ "n" \in KeysOf(resp.result[1]) <=> body.env[1].n # <<>>
            /\ "sig" \in KeysOf(resp.result[1]) <=> body.env[1].sig # <<>>
            /\ KeysOf(resp.result[1]) \subseteq {"n", "sig"}
            /\ (body.env[1].n = <<>> /\ body.env[1].sig = <<>>)
                 => resp.result[1] = {}

\* C15 witness: an env with `sig` alone was answered with the key sig alone,
\* then an env with neither was answered with the empty object
C15_Witness ==
  /\ Len(evalLog) = 2
  /\ evalLog[1].body.env = <<[n |-> <<>>, sig |-> <<"s1">>]>>
  /\ evalLog[1].body.data # <<>>
  /\ KeysOf(evalLog[1].response.result[1]) = {"sig"}
  /\ evalLog[2].body.env = <<[n |-> <<>>, sig |-> <<>>]>>
  /\ evalLog[2].body.data # <<>>
  /\ evalLog[2].response = [status |-> 200, error |-> <<>>, result |-> <<{}>>,
                            executed |-> 1]
----------------------------------------------------------------------------
(* Claims about the refresh of the minter *)

\* C14: a /pot request that finds the cache holding the rejected promise of
\* a creation the refresh timer started makes #getMinter start a fresh
\* creation and awaits that one.
C14_ExplicitCallRecreates ==
  [][\A r \in Requests :
       ( /\ potReq[r].st = "idle" /\ potReq'[r].st = "awaiting"
         /\ firedMinterTimers # {}
         /\ minterPromise # Null
         /\ minterRun[minterPromise] = "rejected" )
       => /\ nextRun' = nextRun + 1
          /\ potReq'[r].p = nextRun
          /\ minterRun'[nextRun] = "pending"]_vars

\* C20: the firing of the refresh timer puts the promise of a new creation
\* into the cache in the same step and leaves the requests alone; a request
\* reads the promise the cache holds, which is never that of a minter whose
\* refresh timer has fired; a request keeps the promise it read, and is
\* served by the minter that promise resolved with.
C20_RequestsAfterFiringGetNewMinter ==
  [][/\ firedMinterTimers' # firedMinterTimers
          => /\ minterPromise' = nextRun
             /\ minterPromise' # minterPromise
             /\ minterRun'[minterPromise'] = "pending"
             /\ potReq' = potReq
     /\ \A r \in Requests :
          /\ (potReq[r].st = "idle" /\ potReq'[r].st = "awaiting")
               => /\ potReq'[r].p = minterPromise'
                  /\ minterPromise # Null => potReq'[r].p = minterPromise
                  /\ potReq'[r].p \notin firedMinterTimers
          /\ potReq[r].st # "idle" => potReq'[r].p = potReq[r].p
          /\ potReq'[r].st = "done"
               => /\ potReq'[r].by = potReq'[r].p
                  /\ minterRun'[potReq'[r].p] = "resolved"]_vars

\* C20 witness: request 1 read the first minter's promise, the timer fired,
\* request 2 then read the new promise; each was served by its own minter
C20_Witness ==
  /\ firedMinterTimers = {1}
  /\ potReq[1].st = "done" /\ potReq[1].by = 1
  /\ potReq[2].st = "done" /\ potReq[2].by = 2
----------------------------------------------------------------------------
(* Claims about the runtime of the subprocess *)

\* the runtime a program runs the script under
RuntimeOfCommand(command) == IF command = "npx deno run" THEN "deno" ELSE "node"

\* C11: the subprocess is spawned with Deno exactly when isDenoInstalled
\* reports it installed, and with Node otherwise; the `runtime` of the spawn's
\* result, held by the wrapper as its service, and the wrapper's
\* serviceRuntime are the runtime the subprocess was spawned with.
C11_RuntimeObservable ==
  wrapper.launch # <<>> =>
    /\ wrapper.denoInstalled # <<>>
    /\ wrapper.launch[1].command =
         (IF wrapper.denoInstalled[1] THEN "npx deno run" ELSE "node")
    /\ wrapper.service # <<>> =>
         /\ wrapper.service[1].runtime =
              RuntimeOfCommand(wrapper.launch[1].command)
         /\ ServiceRuntime(wrapper) =
              <<RuntimeOfCommand(wrapper.launch[1].command)>>

\* C11 witness: Deno is not installed, the subprocess runs under Node and
\* the created wrapper reports node
C11_Witness ==
  /\ wrapper.phase = "created"
  /\ wrapper.denoInstalled = <<FALSE>>
  /\ wrapper.launch[1].command = "node"
  /\ wrapper.proc = "running"
  /\ ServiceRuntime(wrapper) = <<"node">>
----------------------------------------------------------------------------
(* Claims about the refresh of the session and about disposal *)

\* the latest #initInnertube run started
LatestInit(w) == w.nextInit - 1

\* C16: a run that requests a token while the wrapper holds the token of an
\* earlier run requests it for that token's identifier (type, value and
\* pageId) and with its visitor data; the runs after the first never create
\* a client to read visitor data from nor ask for the account's identity;
\* the client made with a token has the visitor data of that token.
C16_StickyIdentifier ==
  /\ \A r \in InitRuns :
       /\ ( /\ wrapper.runs[r].pc \in {"pot", "create"}
            /\ wrapper.lastSessionPoToken # <<>> )
          => /\ wrapper.runs[r].identifier[1] =
                  wrapper.lastSessionPoToken[1].identifier
             /\ wrapper.runs[r].visitorData =
                  wrapper.lastSessionPoToken[1].visitorData
       /\ r > 1 => wrapper.runs[r].pc \notin {"bare", "datasync", "createBare"}
  /\ ( /\ wrapper.innertube # <<>>
       /\ wrapper.lastSessionPoToken # <<>>
       /\ wrapper.runs[wrapper.innertube[1].by].pc = "resolved" )
     => wrapper.innertube[1].visitorData =
          wrapper.lastSessionPoToken[1].visitorData

\* C16 witness: the second refresh requests its token for the account's
\* datasync identifier, resolved by the first construction
C16_Witness ==
  /\ wrapper.nextInit = 4
  /\ wrapper.runs[3].pc = "pot"
  /\ wrapper.runs[3].identifier[1].type = "datasyncIdToken"
  /\ wrapper.lastSessionPoToken # <<>>
  /\ wrapper.innertube # <<>> /\ wrapper.innertube[1].by = 2

\* C17: in a wrapper that is not disposed the cached promise is that of the
\* latest construction started (a construction the timer starts replaces
\* it); a construction past its token request holds the token it requested
\* itself; when the latest construction has completed, the client is the one
\* it made, and if its token has a ttl other than 0 its refresh timer is
\* pending.
C17_SessionKeepsRefreshing ==
  (~wrapper.disposed /\ wrapper.nextInit > 1) =>
    LET r == LatestInit(wrapper)
    IN /\ wrapper.innertubePromise = r
       /\ wrapper.runs[r].pc = "create" =>
            /\ wrapper.lastSessionPoToken = wrapper.runs[r].token
            /\ wrapper.rpcs >= r
       /\ wrapper.runs[r].pc = "resolved" =>
            /\ wrapper.innertube # <<>>
            /\ wrapper.innertube[1].by = r
            /\ wrapper.lastSessionPoToken # <<>> =>
                 /\ wrapper.innertube[1].poToken =
                      wrapper.lastSessionPoToken[1].value
                 /\ wrapper.lastSessionPoToken[1].ttl \notin {<<>>, <<0>>}
                      => /\ wrapper.timers = {r}
                         /\ wrapper.poTokenRefreshTimer = r

\* C17 witness: the session was refreshed twice and the timer of the third
\* construction is pending
C17_Witness ==
  /\ ~wrapper.disposed
  /\ wrapper.runs[3].pc = "resolved"
  /\ wrapper.innertube[1].by = 3
  /\ wrapper.timers = {3}
  /\ wrapper.rpcs = 3

\* C19: once dispose() was called no refresh timer is pending; once it has
\* resolved the subprocess has closed.
C19_CleanTeardown ==
  /\ wrapper.disposed =>
       wrapper.timers = {} /\ wrapper.poTokenRefreshTimer = Null
  /\ wrapper.disposing = "done" => wrapper.proc = "closed"

\* C19 witness: dispose() was called while a reconstruction started by the
\* timer was in flight; dispose() has resolved and the reconstruction has
\* since made its client and failed
C19_Witness ==
  /\ wrapper.disposing = "done"
  /\ wrapper.stops = 1
  /\ wrapper.runs[2].pc = "rejected" /\ wrapper.runs[2].error = "disposed"
  /\ wrapper.innertube # <<>> /\ wrapper.innertube[1].by = 2
----------------------------------------------------------------------------
(* Claims about the end of the subprocess *)

\* C21: once the subprocess of a created wrapper has closed, the wrapper
\* holds no service and serviceRuntime is undefined; unless the wrapper is
\* disposed, generatePoToken() and the code-evaluation hook then throw the
\* 'service not started' error and send no request.
C21_ClosedSubprocessPropagates ==
  (wrapper.phase = "created" /\ wrapper.proc = "closed") =>
    /\ wrapper.service = <<>>
    /\ ServiceRuntime(wrapper) = <<>>
    /\ ~wrapper.disposed =>
         /\ GeneratePoToken(wrapper) = <<wrapper, "notStarted", Null>>
         /\ Eval(wrapper) = <<wrapper, "notStarted", Null>>

\* C21 witness: the subprocess closed on its own after the wrapper was
\* created, and generatePoToken() was then called: it threw and sent nothing
\* (the one request sent is that of the initial session construction)
C21_Witness ==
  /\ wrapper.phase = "created"
  /\ wrapper.proc = "closed"
  /\ wrapper.stops = 0
  /\ ~wrapper.disposed
  /\ lastCall.op = "generatePoToken"
  /\ lastCall.result = "notStarted"
  /\ wrapper.rpcs = 1

\* C28: when create() has failed, the subprocess has been stopped (it has
\* closed, or its stop() was called).
C28_FailedCreateStopsSubprocess ==
  wrapper.phase = "failed" =>
    wrapper.proc = "closed" \/ wrapper.stops > 0
----------------------------------------------------------------------------
(* Claims about GET /pot *)

\* C22: the ttl of every 200 answer of /pot is the floor of
\* (ttl * 1000 + created - now) / 1000 for the minter that served it; it is
\* at most the ttl of that minter, and of two answers served by the same
\* minter the later one's ttl is not greater.
C22_AdjustedTtl ==
  /\ \A i \in 1..Len(potLog) :
       potLog[i].response.status = 200 =>
         LET e == potLog[i]
             ms == e.minter.ttl * 1000 + e.minter.created - e.at
         IN /\ e.response.body.ttl * 1000 <= ms
            /\ ms < e.response.body.ttl * 1000 + 1000
            /\ e.response.body.ttl <= e.minter.ttl
  /\ \A i, j \in 1..Len(potLog) :
       (/\ i < j
        /\ potLog[i].response.status = 200
        /\ potLog[j].response.status = 200
        /\ potLog[i].minter.id = potLog[j].minter.id)
         => potLog[j].response.body.ttl <= potLog[i].response.body.ttl

\* C22 witness: one minter served two requests, the second a while after
\* the first, with a smaller ttl, and the first with less than the minter's
C22_Witness ==
  \E i, j \in 1..Len(potLog) :
    /\ i < j
    /\ potLog[i].response.status = 200
    /\ potLog[j].response.status = 200
    /\ potLog[i].minter.id = potLog[j].minter.id
    /\ potLog[i].at > potLog[i].minter.created
    /\ potLog[i].at < potLog[j].at
    /\ potLog[j].response.body.ttl < potLog[i].response.body.ttl
    /\ potLog[i].response.body.ttl < potLog[i].minter.ttl

\* C25: whatever generatePoToken() returns to its caller holds a poToken;
\* a 500 answer of /pot makes the call fail.
C25_ResultHoldsToken ==
  \A i \in 1..Len(potLog) :
    /\ potLog[i].outcome.outcome = "returned"
         => "poToken" \in DOMAIN potLog[i].outcome.value
    /\ potLog[i].response.status = 500
         => potLog[i].outcome.outcome = "threw"
----------------------------------------------------------------------------
(* Claims about several wrappers in one process *)

\* C26: every evaluation requested by the client of a live wrapper whose
\* service runs is handled by that wrapper's own #eval and is sent to its
\* service, whatever other wrappers were created or disposed.
C26_EvalRoutedToOwnService ==
  \A k \in 1..Len(shimLog) :
    /\ shimLog[k].routed = shimLog[k].client
    /\ shimLog[k].result = "fetch"
----------------------------------------------------------------------------
(* Claims about AutoplayManager *)

\* C23: at most one function of each kind is registered, and while an
\* mpdStateListener is registered lastPlaybackInfo is non-null; a pushed
\* 'play' state of an own track stores that track and leaves exactly one
\* mpdStateListener registered, a pushed 'play' state of another service
\* clears lastPlaybackInfo and leaves no mpdStateListener registered.
C23_ListenersFollowPlayback ==
  [][/\ am'.mpdListeners <= 1
     /\ am'.volumioCallbacks <= 1
     /\ (am'.mpdListeners > 0 \/ am'.mpdStateListener)
          => am'.lastPlaybackInfo # <<>>
     /\ \A state \in PushStates :
          (state.status = "play" /\ VolumioPushState(state)) =>
            IF state.service = ServiceName
            THEN /\ am'.lastPlaybackInfo =
                      <<[uri |-> state.uri, position |-> state.position]>>
                 /\ am'.mpdStateListener
                 /\ am'.mpdListeners = 1
            ELSE /\ am'.lastPlaybackInfo = <<>>
                 /\ ~am'.mpdStateListener
                 /\ am'.mpdListeners = 0]_vars

\* C23 witness: a playback stop was handled, which removed the listener,
\* and an own track plays again: one listener of each kind, the track stored
C23_Witness ==
  /\ lastDecision.branch # "none"
  /\ am.volumioCallbacks = 1
  /\ am.mpdListeners = 1
  /\ am.mpdStateListener
  /\ am.lastPlaybackInfo = <<[uri |-> "yt1", position |-> 1]>>

\* the indices, from 0, at which the search for the last played track may
\* find it: those up to its position that hold its uri
FoundIndices(info, q) ==
  {i \in 0..info[1].position : i < Len(q) /\ q[i + 1] = info[1].uri}

\* the last played track is found, and found at the last index of the queue
FoundAtLastIndex(info, q) ==
  /\ FoundIndices(info, q) # {}
  /\ \E i \in FoundIndices(info, q) :
       /\ \A k \in FoundIndices(info, q) : k <= i
       /\ i = Len(q) - 1

\* C24: a run of #handleAutoplay fetches autoplay items exactly when autoplay
\* is configured, random, repeat and repeatSingle are off, lastPlaybackInfo
\* is non-null and the last played track is found at the last index of the
\* queue; the run itself changes neither the queue nor the 'queued' events,
\* and the queue is changed and 'queued' emitted only by a run that fetched.
C24_AutoplayOnlyWhenApplicable ==
  [][/\ handlings' = handlings + 1 =>
          LET applicable ==
                /\ autoplay
                /\ ~player.random /\ ~player.repeat /\ ~player.repeatSingle
                /\ am.lastPlaybackInfo # <<>>
                /\ FoundAtLastIndex(am.lastPlaybackInfo, queue)
          IN /\ fetching' = IF applicable THEN fetching + 1 ELSE fetching
             /\ lastDecision'.branch = "fetch" <=> applicable
             /\ queue' = queue
             /\ queueOps' = queueOps
             /\ queued' = queued
     /\ fetching' > fetching => handlings' = handlings + 1
     /\ (queueOps' # queueOps \/ queued' # queued)
          => fetching > 0 /\ fetching' = fetching - 1]_vars

\* C24 witness: a run fetched, the items were added to the queue and
\* 'queued' was emitted
C24_Witness ==
  /\ lastDecision.branch = "fetch"
  /\ fetching = 0
  /\ queueOps = 1
  /\ queued = 1
  /\ queue = <<"x", "yt1", "auto">>

\* C27: since the latest 'play' state of an own track at most one
\* #handleAutoplay run has started, and no run starts in a disabled manager.
C27_HandledOncePerStop ==
  /\ handlings <= 1
  /\ lastDecision.branch # "none" => lastDecision.enabled
----------------------------------------------------------------------------
(* Claims about the 'queued' listeners *)

\* the registrations of a function among the listeners
Registrations(listeners, listener) ==
  Cardinality({k \in 1..Len(listeners) : listeners[k] = listener})

\* C29: off(event, listener) does not add a listener and leaves the function
\* registered once less than before (or not at all); a function whose on()
\* calls were all followed by off() calls is not invoked by emit('queued').
C29_OffUndoesOn ==
  [][/\ \A listener \in ListenerFns :
          Off(listener) =>
            /\ Len(queuedListeners') <= Len(queuedListeners)
            /\ Registrations(queuedListeners', listener) =
                 IF Registrations(queuedListeners, listener) > 0
                 THEN Registrations(queuedListeners, listener) - 1
                 ELSE 0
     /\ Emit => \A listener \in ListenerFns :
                  owed[listener] = 0 => listener \notin invoked']_vars
====
